---- MODULE Spec2Model ----
(***************************************************************************)
(* NetRot: the multi-layer ratings cache of src/background.js.             *)
(*                                                                         *)
(* Strings of the program are TLA+ strings; a title is a sequence of       *)
(* one-character strings so that normalizeTitle can be computed.  The      *)
(* JavaScript values null and undefined are the string NULL; a truthy      *)
(* string is one that is neither NULL nor "".  Time is in milliseconds.    *)
(* A stored value is a record: kind "entry" (the object set() builds) or   *)
(* kind "ptr" (the string 'netrot_<id>' set() stores under secondary       *)
(* keys).                                                                  *)
(***************************************************************************)
EXTENDS Integers, Sequences, FiniteSets, TLC

VARIABLES
    memoryCache,      \* CacheManager.memoryCache : key -> stored value
    storage,          \* chrome.storage.local, the ratings entries : storage key -> stored value
    now,              \* Date.now()
    nTicks,           \* number of clock advances
    lastOp,           \* the last CacheManager call of the sequential caller and its result
    nSets,            \* number of set() calls made by the sequential caller
    omdbApiKey,       \* chrome.storage.local['omdbApiKey']
    pendingRequests,  \* CacheManager.pendingRequests : request key -> promise (the fetch's id)
    rateLimiter,      \* the RateLimiter singleton: tokens, lastRefill
    hreq,             \* the handleFetchRatings invocations (saves: nSaves when the message arrived)
    fetch,            \* the performFetch invocations (the fetch promises)
    mergeIn,          \* arguments of a mergeRatingsData call
    mergeOut,         \* its result
    nSaves,           \* number of times the popup saved the options
    faultOp,          \* the last CacheManager call made while storage operations fail
    limiterCalls,     \* the acquire() calls of concurrent callers of a RateLimiter
    ratingsStore,     \* the RatingsStore of a content script and its subscribers' calls
    session,          \* its pending requests, the messages it sent and its get() calls
    options,          \* chrome.storage.local: the display toggles and debugMode
    clearReq,         \* the handleClearCache invocation
    pureCall          \* a call of a pure function: its arguments and result

cacheVars == <<memoryCache, storage, now, nTicks>>
seqVars == <<lastOp, nSets>>
orchVars == <<omdbApiKey, pendingRequests, rateLimiter, hreq, fetch>>
mergeVars == <<mergeIn, mergeOut>>
restVars == <<session, options, clearReq, pureCall>>
sideVars == <<nSaves, faultOp, limiterCalls, ratingsStore, restVars>>
vars == <<cacheVars, seqVars, orchVars, mergeVars, sideVars>>

NULL == "<null>"

Truthy(s) == s # NULL /\ s # ""

-----------------------------------------------------------------------------
(* Bounds of the model *)

MaxSets == 2
MaxTicks == 2
MaxHandlers == 2
MaxSaves == 1
MaxAcquirers == 3
MaxCalls == 4
MaxCallbacks == 2
MaxSubscribes == 3
MaxStoreSets == 2
MaxGets == 2
MaxTitleLen == 2
MaxKeyCalls == 2
MaxResults == 2

\* the values of the variables a specification does not use
NoFault == [op |-> "none", failed |-> {}, outcome |-> "none", hit |-> FALSE]
NoCalls == [proc |-> <<>>, grants |-> 0, refilledTo |-> 0, requests |-> 0]
NoSession == [pending |-> <<>>, sent |-> <<>>, done |-> {}, calls |-> <<>>]
DefaultOptions == [showImdb |-> TRUE, showRotten |-> TRUE, showMetacritic |-> TRUE]
NoClear == [pc |-> "idle", keysToRemove |-> {}, before |-> {}, removed |-> {},
            clearedCount |-> 0, inFlight |-> {}]
NoPure == [op |-> "none", args |-> <<>>, out |-> <<>>]
NoSub == [op |-> "none", key |-> "<null>", cb |-> 0, invoked |-> <<>>, before |-> 0]
NoSet ==
    [op |-> "none", key |-> "<null>", calls |-> <<>>, cacheAtNotify |-> <<>>,
     data |-> [status |-> "<none>", netflixId |-> "<null>", imdbId |-> "<null>",
               normalizedTitle |-> "<null>"]]
NoStore ==
    [cache |-> <<>>, subscribers |-> <<>>, stamp |-> <<>>, handles |-> {},
     received |-> <<>>,
     lastSub |-> NoSub, lastSet |-> NoSet, nSubs |-> 0, nSets |-> 0]

-----------------------------------------------------------------------------
(* CacheManager constants *)

STORAGE_PREFIX == "rating_"

TTL_SUCCESS_FULL == 7 * 24 * 60 * 60 * 1000
TTL_SUCCESS_PARTIAL == 24 * 60 * 60 * 1000
TTL_NOT_FOUND == 24 * 60 * 60 * 1000
TTL_ERROR == 60 * 60 * 1000

-----------------------------------------------------------------------------
(* Key derivation *)

\* String.prototype.toLowerCase on the characters of the model's alphabet
toLowerCase(c) ==
    CASE c = "A" -> "a"
      [] c = "N" -> "n"
      [] c = "R" -> "r"
      [] OTHER -> c

\* the character class [a-z0-9], restricted to the model's alphabet
IsAlnum(c) == c \in {"a", "e", "n", "o", "r", "t", "1"}

RECURSIVE Concat(_)
Concat(cs) == IF cs = <<>> THEN "" ELSE Head(cs) \o Concat(Tail(cs))

\* title.toLowerCase().trim().replace(/[^a-z0-9]/g, '')
normalizeTitle(title) ==
    Concat(SelectSeq([i \in 1..Len(title) |-> toLowerCase(title[i])], IsAlnum))

\* a title is falsy when it is null or the empty string
NullTitle == <<NULL>>
TitleTruthy(title) == title # NullTitle /\ title # <<>>

\* year.substring(0, 4)
Year4(year) ==
    CASE year = "2010" -> "2010"
      [] year = "2010-2015" -> "2010"
      [] year = "99" -> "99"
      [] OTHER -> year

IdKey(videoId) == "netrot_" \o videoId

TitleYearKey(title, year) == normalizeTitle(title) \o "_" \o Year4(year)

\* CacheManager.getPrimaryKey; normalizeTitle(null) throws a TypeError,
\* which is the value THROWN here
THROWN == "<TypeError>"
getPrimaryKey(videoId, title, year) ==
    IF Truthy(videoId) THEN IdKey(videoId)
    ELSE IF title = NullTitle THEN THROWN
    ELSE IF Truthy(year) THEN TitleYearKey(title, year)
    ELSE normalizeTitle(title)

\* CacheManager.getSearchKeys: push the id key, push the title key,
\* unshift the title_year key
getSearchKeys(videoId, title, year) ==
    LET k1 == IF Truthy(videoId) THEN <<IdKey(videoId)>> ELSE <<>>
        k2 == IF TitleTruthy(title) THEN k1 \o <<normalizeTitle(title)>> ELSE k1
    IN  IF TitleTruthy(title) /\ Truthy(year)
        THEN <<TitleYearKey(title, year)>> \o k2
        ELSE k2

-----------------------------------------------------------------------------
(* Stored values *)

Ptr(target) == [kind |-> "ptr", target |-> target]

Entry(data, timestamp, ttl, completeness) ==
    [kind |-> "entry", data |-> data, timestamp |-> timestamp, ttl |-> ttl,
     completeness |-> completeness]

IsPtr(v) == v.kind = "ptr"

\* what `.data` of a pointer string evaluates to
UndefinedData == [status |-> NULL, completeness |-> NULL, imdbId |-> NULL,
                  netflixId |-> NULL, fetchedAt |-> 0, enrichedAt |-> 0,
                  ratings |-> [imdb |-> NULL, rottenTomatoes |-> NULL, metacritic |-> NULL]]

DataOf(v) == IF IsPtr(v) THEN UndefinedData ELSE v.data

\* getTTL with the error outcome given the not_found TTL
getTTL_ErrorAsNotFound(data) ==
    IF data.status = "error" THEN TTL_NOT_FOUND
    ELSE IF data.status = "not_found" THEN TTL_NOT_FOUND
    ELSE IF data.completeness = "full" THEN TTL_SUCCESS_FULL
    ELSE TTL_SUCCESS_PARTIAL

\* CacheManager.getTTL
getTTL(data) ==
    IF data.status = "error" THEN TTL_ERROR
    ELSE IF data.status = "not_found" THEN TTL_NOT_FOUND
    ELSE IF data.completeness = "full" THEN TTL_SUCCESS_FULL
    ELSE TTL_SUCCESS_PARTIAL

\* isValid with the age comparison reversed
isValid_Reversed(entry, t) ==
    IF IsPtr(entry) THEN TRUE
    ELSE IF entry.timestamp = 0 THEN FALSE
    ELSE (t - entry.timestamp) >= (IF entry.ttl = 0 THEN TTL_SUCCESS_FULL ELSE entry.ttl)

\* CacheManager.isValid at time t
isValid(entry, t) ==
    IF IsPtr(entry) THEN TRUE
    ELSE IF entry.timestamp = 0 THEN FALSE
    ELSE (t - entry.timestamp) < (IF entry.ttl = 0 THEN TTL_SUCCESS_FULL ELSE entry.ttl)

Has(m, k) == k \in DOMAIN m
Put(m, k, v) == (k :> v) @@ m
Del(m, k) == [x \in DOMAIN m \ {k} |-> m[x]]

Miss == [hit |-> FALSE, data |-> UndefinedData, source |-> NULL]
Hit(data, source) == [hit |-> TRUE, data |-> data, source |-> source]


-----------------------------------------------------------------------------
(* CacheManager.get *)

\* the `resolve` helper of get, called with source 'memory' on a key the
\* memory cache holds: the result and the memory cache after it
resolve(key, mem, sto, t) ==
    LET value == mem[key]
    IN  IF IsPtr(value)
        THEN LET targetKey == value.target
                 sk == STORAGE_PREFIX \o targetKey
             IN  IF Has(mem, targetKey) /\ isValid(mem[targetKey], t)
                 THEN [res |-> Hit(DataOf(mem[targetKey]), "memory_linked"), mem |-> mem]
                 ELSE IF Has(sto, sk) /\ isValid(sto[sk], t)
                 THEN [res |-> Hit(DataOf(sto[sk]), "storage_linked"),
                       mem |-> Put(mem, targetKey, sto[sk])]
                 ELSE [res |-> Miss, mem |-> mem]
        ELSE IF isValid(value, t)
        THEN [res |-> Hit(value.data, "memory"), mem |-> mem]
        ELSE [res |-> Miss, mem |-> mem]

\* step 3 of get: the loop over the values read from storage
RECURSIVE StorageLoop(_, _, _, _, _)
StorageLoop(keys, i, mem, sto, t) ==
    IF i > Len(keys) THEN [res |-> Miss, mem |-> mem]
    ELSE LET key == keys[i]
             sk == STORAGE_PREFIX \o key
         IN  IF ~Has(sto, sk) THEN StorageLoop(keys, i + 1, mem, sto, t)
             ELSE LET val == sto[sk]
                  IN  IF IsPtr(val)
                      THEN LET tk == STORAGE_PREFIX \o val.target
                           IN  IF Has(sto, tk) /\ isValid(sto[tk], t)
                               THEN [res |-> Hit(DataOf(sto[tk]), "storage"),
                                     mem |-> Put(Put(mem, val.target, sto[tk]), key, val)]
                               ELSE StorageLoop(keys, i + 1, mem, sto, t)
                      ELSE IF isValid(val, t)
                      THEN [res |-> Hit(val.data, "storage"), mem |-> Put(mem, key, val)]
                      ELSE StorageLoop(keys, i + 1, mem, sto, t)

\* step 2 of get: the loop over the memory cache, then step 3
RECURSIVE MemoryLoop(_, _, _, _, _)
MemoryLoop(keys, i, mem, sto, t) ==
    IF i > Len(keys) THEN StorageLoop(keys, 1, mem, sto, t)
    ELSE IF Has(mem, keys[i])
    THEN LET r == resolve(keys[i], mem, sto, t)
         IN  IF r.res.hit THEN r
             ELSE MemoryLoop(keys, i + 1, Del(mem, keys[i]), sto, t)
    ELSE MemoryLoop(keys, i + 1, mem, sto, t)

\* CacheManager.get(videoId, title, year) at time t: [res, mem]
CacheGet(mem, sto, t, videoId, title, year) ==
    MemoryLoop(getSearchKeys(videoId, title, year), 1, mem, sto, t)

-----------------------------------------------------------------------------
(* CacheManager.set *)

\* the object `data` after set's `data.netflixId = videoId`
SetData(videoId, data) ==
    IF Truthy(videoId) /\ ~Truthy(data.netflixId)
    THEN [data EXCEPT !.netflixId = videoId]
    ELSE data

MasterKey(videoId, title, year) ==
    IF Truthy(videoId) THEN IdKey(videoId) ELSE getPrimaryKey(NULL, title, year)

SecondaryKeys(title, year, data) ==
    (IF TitleTruthy(title) THEN {normalizeTitle(title)} ELSE {})
    \cup (IF TitleTruthy(title) /\ Truthy(year) THEN {TitleYearKey(title, year)} ELSE {})
    \cup (IF Truthy(data.imdbId) THEN {data.imdbId} ELSE {})

\* set() writing a copy of the entry under every secondary key
SetUpdates_CopyAlways(t, videoId, title, year, data) ==
    LET d == SetData(videoId, data)
        masterKey == MasterKey(videoId, title, year)
        entry == Entry(d, t, getTTL(d), IF Truthy(year) THEN "full" ELSE "partial")
    IN  [k \in {masterKey} \cup SecondaryKeys(title, year, d) |-> entry]

\* the values set() writes, by cache key: the entry under the master key,
\* and under each other key a pointer (videoId known) or the entry again
SetUpdates(t, videoId, title, year, data) ==
    LET d == SetData(videoId, data)
        masterKey == MasterKey(videoId, title, year)
        entry == Entry(d, t, getTTL(d), IF Truthy(year) THEN "full" ELSE "partial")
        secs == SecondaryKeys(title, year, d) \ {masterKey}
    IN  [k \in {masterKey} \cup secs |->
            IF k = masterKey THEN entry
            ELSE IF Truthy(videoId) THEN Ptr(masterKey) ELSE entry]

\* storageUpdates: the same values under the prefixed keys
StorageUpdates(upd) ==
    [sk \in {STORAGE_PREFIX \o k : k \in DOMAIN upd} |->
        upd[CHOOSE k \in DOMAIN upd : STORAGE_PREFIX \o k = sk]]

\* CacheManager.set(videoId, title, year, data) at time t: [mem, sto]
CacheSet(mem, sto, t, videoId, title, year, data) ==
    LET upd == SetUpdates(t, videoId, title, year, data)
    IN  [mem |-> upd @@ mem, sto |-> StorageUpdates(upd) @@ sto]

-----------------------------------------------------------------------------
(* The data objects of the model *)

\* a data object: the fields of normalizeOmdbResponse, of errorData and of
\* mergeRatingsData that the cache and the orchestrator read (a timestamp
\* that is undefined is 0)
MkData(status, completeness, imdbId, netflixId, fetchedAt, ratings) ==
    [status |-> status, completeness |-> completeness, imdbId |-> imdbId,
     netflixId |-> netflixId, fetchedAt |-> fetchedAt, enrichedAt |-> 0,
     ratings |-> ratings]

NoRatings == [imdb |-> NULL, rottenTomatoes |-> NULL, metacritic |-> NULL]
SomeRatings == [imdb |-> "7.0", rottenTomatoes |-> "90%", metacritic |-> NULL]

\* the data a caller passes to set() at time t: one per TTL class
CacheData(t) ==
    { MkData("success", "full", "tt1", NULL, t, SomeRatings),
      MkData("success", "partial", "tt1", NULL, t, SomeRatings),
      MkData("not_found", NULL, NULL, NULL, t, NoRatings),
      MkData("error", NULL, NULL, NULL, t, NoRatings) }

\* the identities (videoId, title, year) of the sequential caller: the title
\* A with and without each video id and year, and the title NetRot with the
\* year 2010, whose title_year key netrot_2010 is also the id key of the
\* video 2010
CVideoIds == {NULL, "7", "2010"}
CYears == {NULL, "2010"}
TitleA == <<"A">>
TitleNetRot == <<"N", "e", "t", "R", "o", "t">>
CIdentities ==
    { <<v, TitleA, y>> : v \in CVideoIds, y \in CYears } \cup { <<"7", TitleNetRot, "2010">> }

\* clock advances: one millisecond, and up to one millisecond before each TTL
TickSteps == {1, TTL_ERROR - 1, TTL_NOT_FOUND - 1, TTL_SUCCESS_FULL - 1}

-----------------------------------------------------------------------------
(* mergeRatingsData and normalizeOmdbResponse *)

\* getValidValue without the fallback to the old value
getValidValue_FreshOnly(newVal, oldVal) ==
    IF Truthy(newVal) /\ newVal # "N/A" THEN newVal ELSE NULL

\* getValidValue of mergeRatingsData
getValidValue(newVal, oldVal) ==
    IF Truthy(newVal) /\ newVal # "N/A" THEN newVal
    ELSE IF Truthy(oldVal) /\ oldVal # "N/A" THEN oldVal
    ELSE NULL

\* a || b on strings
OrElse(a, b) == IF Truthy(a) THEN a ELSE b

\* a merge that overwrites the existing record with the fresh one
mergeRatingsData_Overwrite(existing, fresh, t) == fresh

\* mergeRatingsData(existing, fresh) at time t
mergeRatingsData(existing, fresh, t) ==
    [imdbId |-> OrElse(fresh.imdbId, existing.imdbId),
     netflixId |-> OrElse(fresh.netflixId, existing.netflixId),
     ratings |->
        [imdb |-> getValidValue(fresh.ratings.imdb, existing.ratings.imdb),
         rottenTomatoes |-> getValidValue(fresh.ratings.rottenTomatoes,
                                          existing.ratings.rottenTomatoes),
         metacritic |-> getValidValue(fresh.ratings.metacritic, existing.ratings.metacritic)],
     status |-> "success",
     completeness |-> IF fresh.completeness = "full" \/ existing.completeness = "full"
                      THEN "full" ELSE "partial",
     fetchedAt |-> t,
     enrichedAt |-> IF existing.fetchedAt # 0 THEN t ELSE 0]

\* an OMDb response: Response, imdbID, imdbRating, the Value of the Rotten
\* Tomatoes element of Ratings (NULL when there is none), Metascore
ApiTrue(imdbRating, rtValue, metascore) ==
    [Response |-> "True", imdbID |-> "tt1", imdbRating |-> imdbRating,
     rtValue |-> rtValue, Metascore |-> metascore, Error |-> NULL]
ApiFalse == [Response |-> "False", imdbID |-> NULL, imdbRating |-> NULL,
             rtValue |-> NULL, Metascore |-> NULL, Error |-> NULL]

\* { Response: 'False', Error: message }
ApiError(message) == [ApiFalse EXCEPT !.Error = message]

\* a request to the provider that fails: fetch rejects, or the body of an
\* error status is not JSON
NetFail == [ApiFalse EXCEPT !.Response = "<failed>"]

\* the message of the TypeError of a rejected fetch
FailedToFetch == "Failed to fetch"

\* searchOmdbFallback, given the outcome of the search query (results with
\* a best match, none, or a failure) and the answer to the detail lookup;
\* its catch block turns a failure into a Response 'False'
searchOmdbFallback(net) ==
    IF net.search = "fail" THEN ApiError(FailedToFetch)
    ELSE IF net.search = "none" THEN ApiError("Movie not found")
    ELSE IF net.detail = NetFail THEN ApiError(FailedToFetch)
    ELSE net.detail

\* what fetchFromOmdb returns when the exact lookup is answered: the exact
\* match, or the result of the fallback search
fetchFromOmdb(net) ==
    IF net.exact.Response = "True" THEN net.exact ELSE searchOmdbFallback(net)

\* normalizeOmdbResponse(data, normalizedTitle, year) at time t
normalizeOmdbResponse(data, year, t) ==
    MkData("success", IF Truthy(year) THEN "full" ELSE "partial", data.imdbID, NULL, t,
           [imdb |-> IF data.imdbRating # "N/A" THEN data.imdbRating ELSE NULL,
            rottenTomatoes |-> OrElse(data.rtValue, NULL),
            metacritic |-> IF data.Metascore # "N/A" THEN data.Metascore ELSE NULL])

-----------------------------------------------------------------------------
(* RateLimiter *)

maxTokens == 10
windowMs == 1000
minWaitMs == 100

Max(a, b) == IF a >= b THEN a ELSE b

\* RateLimiter.refillTokens at time t
refillTokens(rl, t) ==
    IF t - rl.lastRefill >= windowMs
    THEN [tokens |-> maxTokens, lastRefill |-> t]
    ELSE rl

\* acquire returning without taking a token
acquire_NoTake(rl, t) ==
    LET r == refillTokens(rl, t)
    IN  IF r.tokens > 0
        THEN [rl |-> r, granted |-> TRUE, wakeAt |-> 0]
        ELSE [rl |-> r, granted |-> FALSE,
              wakeAt |-> t + Max(windowMs - (t - r.lastRefill), minWaitMs)]

\* acquire taking two tokens
acquire_TakeTwo(rl, t) ==
    LET r == refillTokens(rl, t)
    IN  IF r.tokens > 0
        THEN [rl |-> [r EXCEPT !.tokens = r.tokens - 2], granted |-> TRUE, wakeAt |-> 0]
        ELSE [rl |-> r, granted |-> FALSE,
              wakeAt |-> t + Max(windowMs - (t - r.lastRefill), minWaitMs)]

\* one pass of RateLimiter.acquire at time t: the limiter after it, whether
\* a token was taken, and otherwise when the timer set by setTimeout is due
acquire(rl, t) ==
    LET r == refillTokens(rl, t)
    IN  IF r.tokens > 0
        THEN [rl |-> [r EXCEPT !.tokens = r.tokens - 1], granted |-> TRUE, wakeAt |-> 0]
        ELSE [rl |-> r, granted |-> FALSE,
              wakeAt |-> t + Max(windowMs - (t - r.lastRefill), minWaitMs)]

-----------------------------------------------------------------------------
(* The records of the fetch orchestrator *)

Handlers == 1..MaxHandlers

NoResult == [success |-> FALSE, data |-> UndefinedData, source |-> NULL, error |-> NULL]
Ok(data, source) == [success |-> TRUE, data |-> data, source |-> source, error |-> NULL]
Fail(error) == [success |-> FALSE, data |-> UndefinedData, source |-> NULL, error |-> error]

IdleHandler ==
    [pc |-> "idle", videoId |-> NULL, title |-> NullTitle, year |-> NULL,
     enrichExisting |-> FALSE, checkFreshness |-> FALSE, requestKey |-> NULL,
     cached |-> Miss, apiKey |-> NULL, awaiting |-> 0,
     responded |-> FALSE, response |-> NoResult, saves |-> 0]

NoFetch ==
    [pc |-> "none", registered |-> FALSE, cached |-> Miss, apiKey |-> NULL,
     wakeAt |-> 0, result |-> NoResult]

\* the test of the cached value accepting an entry of any status
CachedSuccess_AnyHit(cached) == cached.hit

\* cached && cached.data && cached.data.status === 'success'
CachedSuccess(cached) == cached.hit /\ cached.data.status = "success"

\* shouldEnrich of handleFetchRatings
ShouldEnrich(year, cachedData) ==
    Truthy(year) /\ cachedData.completeness = "partial" /\ cachedData.status = "success"

\* the cache test accepting only successful entries
ServeFromCache_SuccessOnly(cached, year, enrichExisting) ==
    CachedSuccess(cached) /\ ~ShouldEnrich(year, cached.data) /\ ~enrichExisting

\* the test `cached` and `!shouldEnrich && !enrichExisting`: the request is
\* answered from the cache
ServeFromCache(cached, year, enrichExisting) ==
    cached.hit /\ ~ShouldEnrich(year, cached.data) /\ ~enrichExisting

\* the response sent on a cache hit
CacheResponse(cached) ==
    [success |-> cached.data.status # "error" /\ cached.data.status # "not_found",
     data |-> cached.data, source |-> cached.source, error |-> NULL]

\* `cachedData.netflixId = videoId` changes the object the memory cache
\* holds: every memory entry holding that data object
LinkInMemory(mem, oldData, newData) ==
    [k \in DOMAIN mem |->
        IF ~IsPtr(mem[k]) /\ mem[k].data = oldData
        THEN [mem[k] EXCEPT !.data = newData]
        ELSE mem[k]]

\* a finally block that leaves the pending-request map alone
DeletePending_Keep(pending, requestKey) == pending

\* the pending-request map after performFetch's finally block
DeletePending(pending, requestKey) ==
    [k \in DOMAIN pending \ {requestKey} |-> pending[k]]

-----------------------------------------------------------------------------
(* A sequential caller of CacheManager *)

NoOp == [op |-> "none", videoId |-> NULL, title |-> NullTitle, year |-> NULL,
         data |-> UndefinedData, res |-> Miss, afterSet |-> FALSE]

NoMerge == [existing |-> UndefinedData, fresh |-> UndefinedData, called |-> FALSE]

CacheInit ==
    /\ memoryCache = <<>>
    /\ storage = <<>>
    /\ now = 1
    /\ nTicks = 0
    /\ lastOp = NoOp
    /\ nSets = 0
    /\ omdbApiKey = NULL
    /\ rateLimiter = [tokens |-> maxTokens, lastRefill |-> 1]
    /\ pendingRequests = <<>>
    /\ hreq = [h \in Handlers |-> IdleHandler]
    /\ fetch = [h \in Handlers |-> NoFetch]
    /\ mergeIn = NoMerge
    /\ mergeOut = UndefinedData
    /\ nSaves = 0
    /\ faultOp = NoFault
    /\ limiterCalls = NoCalls
    /\ ratingsStore = NoStore
    /\ session = NoSession
    /\ options = DefaultOptions
    /\ clearReq = NoClear
    /\ pureCall = NoPure

\* await cacheManager.set(videoId, title, year, data)
CM_Set(videoId, title, year, data) ==
    /\ nSets < MaxSets
    /\ LET w == CacheSet(memoryCache, storage, now, videoId, title, year, data)
       IN  /\ memoryCache' = w.mem
           /\ storage' = w.sto
    /\ lastOp' = [op |-> "set", videoId |-> videoId, title |-> title, year |-> year,
                  data |-> SetData(videoId, data), res |-> Miss, afterSet |-> FALSE]
    /\ nSets' = nSets + 1
    /\ UNCHANGED <<now, nTicks, orchVars, mergeVars, sideVars>>

\* await cacheManager.get(videoId, title, year); the call and its result are
\* recorded when it follows a set() of the same identity
CM_Get(videoId, title, year) ==
    /\ LET r == CacheGet(memoryCache, storage, now, videoId, title, year)
           afterSet == /\ lastOp.op = "set"
                       /\ lastOp.videoId = videoId
                       /\ lastOp.title = title
                       /\ lastOp.year = year
       IN  /\ memoryCache' = r.mem
           /\ lastOp' = IF afterSet
                        THEN [lastOp EXCEPT !.op = "get", !.res = r.res, !.afterSet = TRUE]
                        ELSE [NoOp EXCEPT !.op = "get"]
    /\ UNCHANGED <<storage, now, nSets, nTicks, orchVars, mergeVars, sideVars>>

\* time passes
Tick(d) ==
    /\ nTicks < MaxTicks
    /\ now' = now + d
    /\ nTicks' = nTicks + 1
    /\ lastOp' = [NoOp EXCEPT !.op = "tick"]
    /\ UNCHANGED <<memoryCache, storage, nSets, orchVars, mergeVars, sideVars>>

CacheNext ==
    \/ \E id \in CIdentities : \E data \in CacheData(now) : CM_Set(id[1], id[2], id[3], data)
    \/ \E id \in CIdentities : CM_Get(id[1], id[2], id[3])
    \/ \E d \in TickSteps : Tick(d)

SpecCache == CacheInit /\ [][CacheNext]_vars

-----------------------------------------------------------------------------
(* The fetch orchestrator: handleFetchRatings and performFetch.            *)
(*                                                                         *)
(* A handler runs from one await to the next in one step.  A call of       *)
(* chrome.storage.local reads or writes the store when it is issued and    *)
(* the handler continues in a later step; cacheManager.get and set take    *)
(* effect as a whole when they are called.  Fetch h is the performFetch    *)
(* call of handler h.                                                      *)

\* the requests the content scripts send: title A alone, with the year
\* 2010, with the video id 7, and the video id 7 without a title
OIdentities ==
    { <<NULL, TitleA, NULL>>, <<NULL, TitleA, "2010">>, <<"7", TitleA, NULL>>,
      <<"7", NullTitle, NULL>> }

\* <<enrichExisting, checkFreshness>> of the messages RatingsStore sends:
\* fetch sends checkFreshness alone, fetchWithEnrichment enrichExisting alone
RequestFlags == { <<FALSE, FALSE>>, <<FALSE, TRUE>>, <<TRUE, FALSE>> }

\* what the ratings provider answers when it has a match
ApiResponses == { ApiTrue("7.0", NULL, "N/A"), ApiTrue("N/A", "90%", "N/A") }

\* the outcomes of the requests of one fetchFromOmdb call whose exact
\* lookup is answered: an exact match; no exact match and a search without
\* results or failing; no exact match, search results, and a detail lookup
\* answered with a match or failing
NetOutcomes ==
    { [exact |-> p, search |-> "none", detail |-> NetFail] : p \in ApiResponses }
    \cup { [exact |-> ApiFalse, search |-> s, detail |-> NetFail] : s \in {"none", "fail"} }
    \cup { [exact |-> ApiFalse, search |-> "results", detail |-> d] :
             d \in {ApiTrue("7.0", NULL, "N/A"), NetFail} }

\* clock advances of the orchestrator: one millisecond, one rate-limiter
\* window, and up to one millisecond before the TTL of a partial entry
OTickSteps == {1, TTL_SUCCESS_PARTIAL - 1}

SetH(h, r) == hreq' = [hreq EXCEPT ![h] = r]
SetF(f, r) == fetch' = [fetch EXCEPT ![f] = r]

\* a return without sendResponse
Respond_Silent(h, result) == [hreq[h] EXCEPT !.pc = "done"]

\* sendResponse(result); return
Respond(h, result) ==
    [hreq[h] EXCEPT !.pc = "done", !.responded = TRUE, !.response = result]

\* the message listener calls handleFetchRatings(request, sendResponse):
\* the code up to the first await
H_Receive(h, id, enrichExisting, checkFreshness) ==
    /\ hreq[h].pc = "idle"
    /\ h > 1 => hreq[h - 1].pc # "idle"
    /\ LET requestKey == getPrimaryKey(id[1], id[2], id[3])
           r == [hreq[h] EXCEPT !.videoId = id[1], !.title = id[2], !.year = id[3],
                                !.enrichExisting = enrichExisting,
                                !.checkFreshness = checkFreshness,
                                !.requestKey = requestKey,
                                !.saves = nSaves]
       IN  IF requestKey = THROWN
           THEN /\ SetH(h, [r EXCEPT !.pc = "done", !.responded = TRUE,
                                     !.response = Fail("TypeError")])
                /\ UNCHANGED memoryCache
           ELSE IF Has(pendingRequests, requestKey)
           THEN /\ SetH(h, [r EXCEPT !.pc = "awaitPending",
                                     !.awaiting = pendingRequests[requestKey]])
                /\ UNCHANGED memoryCache
           ELSE LET c == CacheGet(memoryCache, storage, now, id[1], id[2], id[3])
                IN  /\ memoryCache' = c.mem
                    /\ SetH(h, [r EXCEPT !.pc = "cacheRead", !.cached = c.res])
    /\ UNCHANGED <<storage, now, nTicks, seqVars, omdbApiKey, pendingRequests,
                   rateLimiter, fetch, mergeVars, sideVars>>

\* the refresh started in place of the response when checkFreshness is set
AnswerFromCache_RefreshOnly(h, cached) ==
    IF hreq[h].checkFreshness
    THEN /\ SetH(h, [hreq[h] EXCEPT !.pc = "done"])
         /\ SetF(h, [NoFetch EXCEPT !.pc = "keyRead", !.cached = cached,
                                    !.apiKey = omdbApiKey])
    ELSE /\ SetH(h, Respond(h, CacheResponse(cached)))
         /\ UNCHANGED fetch

\* sendResponse with the cached data, then the background refresh when
\* checkFreshness is set: performFetch without apiKey, up to its await of
\* the credential read
AnswerFromCache(h, cached) ==
    /\ SetH(h, Respond(h, CacheResponse(cached)))
    /\ IF hreq[h].checkFreshness
       THEN SetF(h, [NoFetch EXCEPT !.pc = "keyRead", !.cached = cached,
                                    !.apiKey = omdbApiKey])
       ELSE UNCHANGED fetch

\* handleFetchRatings after `await cacheManager.get`
H_AfterCacheRead(h) ==
    /\ hreq[h].pc = "cacheRead"
    /\ LET r == hreq[h]
           c == r.cached
       IN  IF ServeFromCache(c, r.year, r.enrichExisting)
           THEN IF Truthy(r.videoId) /\ ~Truthy(c.data.netflixId)
                THEN LET linked == [c.data EXCEPT !.netflixId = r.videoId]
                         w == CacheSet(LinkInMemory(memoryCache, c.data, linked), storage,
                                       now, r.videoId, r.title, r.year, linked)
                     IN  /\ memoryCache' = w.mem
                         /\ storage' = w.sto
                         /\ SetH(h, [r EXCEPT !.pc = "linking", !.cached.data = linked])
                         /\ UNCHANGED fetch
                ELSE /\ AnswerFromCache(h, c)
                     /\ UNCHANGED <<memoryCache, storage>>
           ELSE /\ SetH(h, [r EXCEPT !.pc = "keyRead", !.apiKey = omdbApiKey])
                /\ UNCHANGED <<memoryCache, storage, fetch>>
    /\ UNCHANGED <<now, nTicks, seqVars, omdbApiKey, pendingRequests, rateLimiter, mergeVars, sideVars>>

\* handleFetchRatings after `await cacheManager.set` of the linked data
H_AfterLink(h) ==
    /\ hreq[h].pc = "linking"
    /\ AnswerFromCache(h, hreq[h].cached)
    /\ UNCHANGED <<cacheVars, seqVars, omdbApiKey, pendingRequests, rateLimiter, mergeVars, sideVars>>

\* performFetch from `await rateLimiter.acquire()` on: the first pass of
\* acquire
StartAcquire(f, fetchRec) ==
    LET a == acquire(rateLimiter, now)
    IN  /\ rateLimiter' = a.rl
        /\ SetF(f, [fetchRec EXCEPT !.pc = IF a.granted THEN "acquired" ELSE "waiting",
                                    !.wakeAt = a.wakeAt])

\* handleFetchRatings after the credential read
H_AfterKeyRead(h) ==
    /\ hreq[h].pc = "keyRead"
    /\ LET r == hreq[h]
       IN  IF ~Truthy(r.apiKey)
           THEN /\ SetH(h, Respond(h, IF CachedSuccess(r.cached)
                                      THEN Ok(r.cached.data, r.cached.source)
                                      ELSE Fail("NO_API_KEY")))
                /\ UNCHANGED <<pendingRequests, rateLimiter, fetch>>
           ELSE /\ StartAcquire(h, [NoFetch EXCEPT !.registered = TRUE, !.cached = r.cached,
                                                   !.apiKey = r.apiKey])
                /\ pendingRequests' = Put(pendingRequests, r.requestKey, h)
                /\ SetH(h, [r EXCEPT !.pc = "awaitFetch"])
    /\ UNCHANGED <<cacheVars, seqVars, omdbApiKey, mergeVars, sideVars>>

\* `sendResponse(await fetchPromise)`
H_FetchSettled(h) ==
    /\ hreq[h].pc = "awaitFetch"
    /\ fetch[h].pc = "settled"
    /\ SetH(h, Respond(h, fetch[h].result))
    /\ UNCHANGED <<cacheVars, seqVars, omdbApiKey, pendingRequests, rateLimiter, fetch,
                   mergeVars, sideVars>>

\* `sendResponse(await cacheManager.getPendingRequest(requestKey))`
H_PendingSettled(h) ==
    /\ hreq[h].pc = "awaitPending"
    /\ fetch[hreq[h].awaiting].pc = "settled"
    /\ SetH(h, Respond(h, fetch[hreq[h].awaiting].result))
    /\ UNCHANGED <<cacheVars, seqVars, omdbApiKey, pendingRequests, rateLimiter, fetch,
                   mergeVars, sideVars>>

\* performFetch returns `result` (from the try or the catch block) and its
\* finally block runs
Settle(f, result) ==
    /\ SetF(f, [fetch[f] EXCEPT !.pc = "settled", !.result = result])
    /\ pendingRequests' = DeletePending(pendingRequests, hreq[f].requestKey)

\* the catch block of performFetch
CatchResult(cached, message) ==
    IF CachedSuccess(cached) THEN Ok(cached.data, cached.source) ELSE Fail(message)

\* the background refresh after its credential read
F_AfterKeyRead(f) ==
    /\ fetch[f].pc = "keyRead"
    /\ IF ~Truthy(fetch[f].apiKey)
       THEN /\ Settle(f, CatchResult(fetch[f].cached, "NO_API_KEY"))
            /\ UNCHANGED rateLimiter
       ELSE /\ StartAcquire(f, fetch[f])
            /\ UNCHANGED pendingRequests
    /\ UNCHANGED <<cacheVars, seqVars, omdbApiKey, hreq, mergeVars, sideVars>>

\* the timer of acquire fires and acquire runs again
F_TimerFire(f) ==
    /\ fetch[f].pc = "waiting"
    /\ now >= fetch[f].wakeAt
    /\ StartAcquire(f, fetch[f])
    /\ UNCHANGED <<cacheVars, seqVars, omdbApiKey, pendingRequests, hreq, mergeVars, sideVars>>

\* performFetch after `await rateLimiter.acquire()`: the title check, then
\* fetchFromOmdb sends the lookup
F_AfterAcquire(f) ==
    /\ fetch[f].pc = "acquired"
    /\ IF ~TitleTruthy(hreq[f].title)
       THEN Settle(f, CatchResult(fetch[f].cached, "Cannot fetch without title"))
       ELSE /\ SetF(f, [fetch[f] EXCEPT !.pc = "api"])
            /\ UNCHANGED pendingRequests
    /\ UNCHANGED <<cacheVars, seqVars, omdbApiKey, rateLimiter, hreq, mergeVars, sideVars>>

\* the data performFetch persists and returns for a match
FetchedData(videoId, year, cached, apiData, t) ==
    LET n == normalizeOmdbResponse(apiData, year, t)
        normalizedData == IF Truthy(videoId) THEN [n EXCEPT !.netflixId = videoId] ELSE n
    IN  IF CachedSuccess(cached)
        THEN mergeRatingsData(cached.data, normalizedData, t)
        ELSE normalizedData

\* errorData of performFetch
NotFoundData(videoId, t) == MkData("not_found", NULL, NULL, videoId, t, NoRatings)

\* fetchFromOmdb returns apiData: a match, or Response 'False'
F_ApiReturn(f, apiData) ==
    /\ fetch[f].pc = "api"
    /\ LET r == hreq[f]
           cached == fetch[f].cached
       IN  IF apiData.Response = "True"
           THEN LET d == FetchedData(r.videoId, r.year, cached, apiData, now)
                    w == CacheSet(memoryCache, storage, now, r.videoId, r.title, r.year, d)
                IN  /\ memoryCache' = w.mem
                    /\ storage' = w.sto
                    /\ SetF(f, [fetch[f] EXCEPT !.pc = "writing", !.result = Ok(d, "api")])
                    /\ UNCHANGED pendingRequests
           ELSE IF CachedSuccess(cached)
           THEN /\ Settle(f, Ok(cached.data, cached.source))
                /\ UNCHANGED <<memoryCache, storage>>
           ELSE LET d == NotFoundData(r.videoId, now)
                    w == CacheSet(memoryCache, storage, now, r.videoId, r.title, r.year, d)
                IN  /\ memoryCache' = w.mem
                    /\ storage' = w.sto
                    /\ SetF(f, [fetch[f] EXCEPT !.pc = "writing",
                                                !.result = Fail(OrElse(apiData.Error,
                                                                       "Movie not found"))])
                    /\ UNCHANGED pendingRequests
    /\ UNCHANGED <<now, nTicks, seqVars, omdbApiKey, rateLimiter, hreq, mergeVars, sideVars>>

\* fetchFromOmdb throws: the network failed or the status was not ok
F_ApiThrow(f) ==
    /\ fetch[f].pc = "api"
    /\ Settle(f, CatchResult(fetch[f].cached, "HTTP error"))
    /\ UNCHANGED <<cacheVars, seqVars, omdbApiKey, rateLimiter, hreq, mergeVars, sideVars>>

\* performFetch after `await cacheManager.set`: return, then finally
F_AfterWrite(f) ==
    /\ fetch[f].pc = "writing"
    /\ Settle(f, fetch[f].result)
    /\ UNCHANGED <<cacheVars, seqVars, omdbApiKey, rateLimiter, hreq, mergeVars, sideVars>>

\* no continuation of a storage call or of a granted acquire is due: every
\* handler and fetch waits for a message, the network or a timer
StorageQuiet ==
    /\ \A h \in Handlers : hreq[h].pc \notin {"cacheRead", "linking", "keyRead"}
    /\ \A f \in Handlers : fetch[f].pc \notin {"keyRead", "acquired", "writing"}

\* time passes; storage calls complete within the clock's resolution, so
\* the clock advances between messages and while the network or a timer
\* is awaited
OTick(d) ==
    /\ nTicks < MaxTicks
    /\ StorageQuiet
    /\ now' = now + d
    /\ nTicks' = nTicks + 1
    /\ UNCHANGED <<memoryCache, storage, seqVars, orchVars, mergeVars, sideVars>>

\* the popup's saveOptions: chrome.storage.local.set({ omdbApiKey: apiKey })
\* with the text of the input field, a key or the empty string
SaveOptions(apiKey) ==
    /\ nSaves < MaxSaves
    /\ apiKey # omdbApiKey
    /\ omdbApiKey' = apiKey
    /\ nSaves' = nSaves + 1
    /\ UNCHANGED <<cacheVars, seqVars, pendingRequests, rateLimiter, hreq, fetch, mergeVars,
                   faultOp, limiterCalls, ratingsStore, restVars>>

Init ==
    /\ memoryCache = <<>>
    /\ storage = <<>>
    /\ now = 1
    /\ nTicks = 0
    /\ lastOp = NoOp
    /\ nSets = 0
    /\ omdbApiKey = "key"
    /\ rateLimiter \in { [tokens |-> n, lastRefill |-> 1] : n \in {0, maxTokens} }
    /\ pendingRequests = <<>>
    /\ hreq = [h \in Handlers |-> IdleHandler]
    /\ fetch = [h \in Handlers |-> NoFetch]
    /\ mergeIn = NoMerge
    /\ mergeOut = UndefinedData
    /\ nSaves = 0
    /\ faultOp = NoFault
    /\ limiterCalls = NoCalls
    /\ ratingsStore = NoStore
    /\ session = NoSession
    /\ options = DefaultOptions
    /\ clearReq = NoClear
    /\ pureCall = NoPure

Next ==
    \/ \E h \in Handlers, id \in OIdentities, fl \in RequestFlags :
         H_Receive(h, id, fl[1], fl[2])
    \/ \E h \in Handlers : H_AfterCacheRead(h)
    \/ \E h \in Handlers : H_AfterLink(h)
    \/ \E h \in Handlers : H_AfterKeyRead(h)
    \/ \E h \in Handlers : H_FetchSettled(h)
    \/ \E h \in Handlers : H_PendingSettled(h)
    \/ \E f \in Handlers : F_AfterKeyRead(f)
    \/ \E f \in Handlers : F_TimerFire(f)
    \/ \E f \in Handlers : F_AfterAcquire(f)
    \/ \E f \in Handlers : \E net \in NetOutcomes : F_ApiReturn(f, fetchFromOmdb(net))
    \/ \E f \in Handlers : F_ApiThrow(f)
    \/ \E f \in Handlers : F_AfterWrite(f)
    \/ \E d \in OTickSteps : OTick(d)
    \/ \E apiKey \in {"key", ""} : SaveOptions(apiKey)

Spec == Init /\ [][Next]_vars

-----------------------------------------------------------------------------
(* A caller of mergeRatingsData *)

\* the scores of the existing and of the fresh record: absent, empty,
\* 'N/A', and one score each
ExistingScores == {NULL, "", "N/A", "8.1"}
FreshScores == {NULL, "", "N/A", "7.0"}

RatingsOver(scores) ==
    { [imdb |-> a, rottenTomatoes |-> b, metacritic |-> c] :
        a \in scores, b \in scores, c \in scores }

MergeInit ==
    /\ memoryCache = <<>>
    /\ storage = <<>>
    /\ now = 1
    /\ nTicks = 0
    /\ lastOp = NoOp
    /\ nSets = 0
    /\ omdbApiKey = NULL
    /\ rateLimiter = [tokens |-> maxTokens, lastRefill |-> 1]
    /\ pendingRequests = <<>>
    /\ hreq = [h \in Handlers |-> IdleHandler]
    /\ fetch = [h \in Handlers |-> NoFetch]
    /\ mergeIn \in { [existing |-> MkData("success", "partial", "tt1", NULL, 1, e),
                      fresh |-> MkData("success", "full", "tt1", NULL, 1, f),
                      called |-> FALSE] :
                        e \in RatingsOver(ExistingScores), f \in RatingsOver(FreshScores) }
    /\ mergeOut = UndefinedData
    /\ nSaves = 0
    /\ faultOp = NoFault
    /\ limiterCalls = NoCalls
    /\ ratingsStore = NoStore
    /\ session = NoSession
    /\ options = DefaultOptions
    /\ clearReq = NoClear
    /\ pureCall = NoPure

\* mergeRatingsData(existing, fresh)
MergeCall ==
    /\ ~mergeIn.called
    /\ mergeOut' = mergeRatingsData(mergeIn.existing, mergeIn.fresh, now)
    /\ mergeIn' = [mergeIn EXCEPT !.called = TRUE]
    /\ UNCHANGED <<cacheVars, seqVars, orchVars, sideVars>>

MergeNext == MergeCall

SpecMerge == MergeInit /\ [][MergeNext]_vars

-----------------------------------------------------------------------------
(* Properties of the persistent store adapter *)

SKey(k) == STORAGE_PREFIX \o k

\* m holds under k an entry (not a pointer) that isValid accepts at time t
ValidEntry(m, k, t) == Has(m, k) /\ ~IsPtr(m[k]) /\ isValid(m[k], t)

\* the data of the valid entries held directly under cache key k
Direct(k) ==
    (IF ValidEntry(memoryCache, k, now) THEN {memoryCache[k].data} ELSE {})
    \cup (IF ValidEntry(storage, SKey(k), now) THEN {storage[SKey(k)].data} ELSE {})

\* the keys the pointers held under cache key k reference
Targets(k) ==
    (IF Has(memoryCache, k) /\ IsPtr(memoryCache[k]) THEN {memoryCache[k].target} ELSE {})
    \cup (IF Has(storage, SKey(k)) /\ IsPtr(storage[SKey(k)])
          THEN {storage[SKey(k)].target} ELSE {})

\* what candidate key k yields: a valid entry under k, or one hop away
Yield(k) == Direct(k) \cup UNION { Direct(tk) : tk \in Targets(k) }

SeqRange(q) == { q[i] : i \in 1..Len(q) }

\* the result of get(id) in the current state
GetNow(id) == CacheGet(memoryCache, storage, now, id[1], id[2], id[3]).res

\* all entries held in the memory cache or in storage
StoredEntries ==
    { memoryCache[k] : k \in { x \in DOMAIN memoryCache : ~IsPtr(memoryCache[x]) } }
    \cup { storage[k] : k \in { x \in DOMAIN storage : ~IsPtr(storage[x]) } }

\* C3: set(videoId, title, year, data) followed immediately by
\* get(videoId, title, year) returns exactly data, with and without videoId
C3_WriteThenRead ==
    (lastOp.op = "get" /\ lastOp.afterSet) =>
        (lastOp.res.hit /\ lastOp.res.data = lastOp.data)

\* a get after a set with a videoId and a year answered through a pointer
C3_Witness ==
    /\ lastOp.op = "get" /\ lastOp.afterSet
    /\ Truthy(lastOp.videoId) /\ Truthy(lastOp.year)
    /\ lastOp.res.hit /\ lastOp.res.source = "memory_linked"

\* C4: when get is called with a videoId and a valid entry is stored under
\* the id's master key, that entry is the one returned
C4_LookupPriority ==
    \A id \in CIdentities :
        (Truthy(id[1]) /\ Direct(IdKey(id[1])) # {}) =>
            (GetNow(id).hit /\ GetNow(id).data \in Direct(IdKey(id[1])))

\* every cache key the model's identities and data derive
KeyUniverse ==
    UNION { SeqRange(getSearchKeys(id[1], id[2], id[3])) : id \in CIdentities }
    \cup {"tt1"}

\* C5: no pointer, in memory or in storage, references a key that holds a
\* pointer
C5_NoPointerChains ==
    \A k \in KeyUniverse : \A tk \in Targets(k) : Targets(tk) = {}

\* C6: get returns only data of a valid entry that a candidate key yields
\* directly or one hop away, and returns null only when no candidate key
\* yields a valid entry
C6_DanglingPointerIsMiss ==
    \A id \in CIdentities :
        LET keys == SeqRange(getSearchKeys(id[1], id[2], id[3]))
            r == GetNow(id)
        IN  /\ r.hit => r.data \in UNION { Yield(k) : k \in keys }
            /\ ~r.hit => \A k \in keys : Yield(k) = {}

\* the same, in the states without pointer chains
C6_DanglingPointerIsMissUnlessChain ==
    C5_NoPointerChains => C6_DanglingPointerIsMiss

\* the TTL of C7, by outcome
ClaimTTL(data) ==
    CASE data.status = "error" -> 60 * 60 * 1000
      [] data.status = "not_found" -> 24 * 60 * 60 * 1000
      [] data.status = "success" /\ data.completeness = "full" -> 7 * 24 * 60 * 60 * 1000
      [] OTHER -> 24 * 60 * 60 * 1000

\* C7: the data get returns is that of a stored entry whose age is below the
\* TTL of its outcome
C7_TTLByOutcome ==
    \A id \in CIdentities :
        LET r == GetNow(id)
        IN  (r.hit /\ r.data # UndefinedData) =>
                \E e \in StoredEntries :
                    e.data = r.data /\ now - e.timestamp < ClaimTTL(e.data)

\* an error entry one hour old is no longer returned while a success entry
\* of the same age still is
C7_Witness ==
    /\ \E id \in CIdentities :
        LET k == SKey(getPrimaryKey(id[1], id[2], id[3]))
        IN  /\ Has(storage, k) /\ ~IsPtr(storage[k])
            /\ storage[k].data.status = "error"
            /\ now - storage[k].timestamp = 60 * 60 * 1000
            /\ ~GetNow(id).hit
    /\ \E id \in CIdentities :
        /\ GetNow(id).hit
        /\ GetNow(id).data.status = "success"
        /\ now - GetNow(id).data.fetchedAt >= 60 * 60 * 1000

-----------------------------------------------------------------------------
(* Properties of the fetch orchestrator *)

\* fetch f has sent its lookup to the ratings provider and awaits the answer
LookupInFlight(f) == fetch[f].pc = "api"

\* C1: of the requests with one request key that are handled concurrently,
\* at most one has an external lookup in flight
C1_Coalescing ==
    \A f \in Handlers : \A g \in Handlers :
        (f # g /\ hreq[f].requestKey = hreq[g].requestKey
             /\ fetch[f].registered /\ fetch[g].registered
             /\ LookupInFlight(f))
            => ~LookupInFlight(g)

\* no fetch is in flight
Quiescent == \A f \in Handlers : fetch[f].pc \in {"none", "settled"}

\* a step in which registered fetch f settles
Settles(f) ==
    fetch[f].registered /\ fetch[f].pc # "settled" /\ fetch'[f].pc = "settled"

\* C2: a step that settles a fetch registered for key K leaves no entry for
\* K in the pending-request map, every entry of the map belongs to a fetch
\* in flight, and the map is empty in every quiescent state
C2_NoStuckEntries ==
    /\ [](/\ \A k \in DOMAIN pendingRequests :
                fetch[pendingRequests[k]].pc \notin {"none", "settled"}
          /\ Quiescent => pendingRequests = <<>>)
    /\ [][\A f \in Handlers :
            Settles(f) => ~Has(pendingRequests', hreq[f].requestKey)]_vars

\* two registered fetches have settled, one after a transport error and one
\* with data of the provider, and the map is empty
C2_Witness ==
    /\ Quiescent
    /\ pendingRequests = <<>>
    /\ \E f \in Handlers : \E g \in Handlers :
        /\ fetch[f].registered /\ fetch[f].pc = "settled"
        /\ fetch[f].result.error = "HTTP error"
        /\ fetch[g].registered /\ fetch[g].pc = "settled"
        /\ fetch[g].result.success

\* C8: the data get returns for a request was obtained from the ratings
\* API less than its TTL ago
C8_ValidityFromFetchTime ==
    \A id \in OIdentities :
        LET r == GetNow(id)
        IN  (r.hit /\ r.data # UndefinedData) => now - r.data.fetchedAt < getTTL(r.data)

\* request h, for the identity of a request that ended in a provider
\* not-found, read a not_found entry from the cache
ReadNotFound(h) ==
    /\ hreq[h].pc \notin {"idle", "cacheRead"}
    /\ hreq[h].cached.hit
    /\ hreq[h].cached.data.status = "not_found"
    /\ \E g \in Handlers \ {h} :
        /\ hreq[g].pc # "idle"
        /\ hreq[g].videoId = hreq[h].videoId
        /\ hreq[g].title = hreq[h].title
        /\ hreq[g].year = hreq[h].year
        /\ fetch[g].registered
        /\ fetch[g].result.error = "Movie not found"

\* request h has neither checkFreshness nor enrichExisting set
NoFlags(h) == ~hreq[h].checkFreshness /\ ~hreq[h].enrichExisting

\* request h is answered from the cache with success=false and no lookup of
\* its own is in flight
AnsweredNegative(h) ==
    /\ ~LookupInFlight(h)
    /\ hreq[h].responded =>
        /\ ~hreq[h].response.success
        /\ hreq[h].response.source = hreq[h].cached.source
        /\ hreq[h].response.data.status = "not_found"

\* the not_found entry that the settled fetch g persisted under its request
\* key is less than 24 hours old
PersistedNotFound(g) ==
    /\ fetch[g].registered /\ fetch[g].pc = "settled"
    /\ fetch[g].result.error = "Movie not found"
    /\ LET k == SKey(hreq[g].requestKey)
       IN  /\ Has(storage, k) /\ ~IsPtr(storage[k])
           /\ storage[k].data.status = "not_found"
           /\ now - storage[k].data.fetchedAt < 24 * 60 * 60 * 1000

\* a step that receives request h for the identity of request g
ReceivesSame(h, g) ==
    /\ hreq[h].pc = "idle" /\ hreq'[h].pc # "idle"
    /\ hreq'[h].videoId = hreq[g].videoId
    /\ hreq'[h].title = hreq[g].title
    /\ hreq'[h].year = hreq[g].year

\* C9 as amended: a request without checkFreshness and enrichExisting that
\* follows a persisted not_found of its identity within 24 hours reads the
\* not_found entry, is answered from the cache with success=false, and
\* starts no external lookup
C9_NegativeCachingNoFlags ==
    /\ [](\A h \in Handlers : (ReadNotFound(h) /\ NoFlags(h)) => AnsweredNegative(h))
    /\ [][\A h \in Handlers : \A g \in Handlers :
            (PersistedNotFound(g) /\ ReceivesSame(h, g)) =>
                (hreq'[h].cached.hit /\ hreq'[h].cached.data.status = "not_found")]_vars

\* the second request of an identity, sent without flags after time has
\* passed, is answered success=false from the cache and has started no fetch
C9_Witness ==
    /\ PersistedNotFound(1)
    /\ now > storage[SKey(hreq[1].requestKey)].data.fetchedAt
    /\ hreq[2].videoId = hreq[1].videoId /\ hreq[2].title = hreq[1].title
    /\ hreq[2].year = hreq[1].year
    /\ ReadNotFound(2) /\ NoFlags(2)
    /\ hreq[2].pc = "done" /\ hreq[2].responded
    /\ ~hreq[2].response.success
    /\ fetch[2].pc = "none"

\* C9: a request that follows a persisted not_found of its identity within
\* 24 hours reads the not_found entry, is answered from the cache with
\* success=false, and starts no external lookup
C9_NegativeCaching ==
    /\ [](\A h \in Handlers : ReadNotFound(h) => AnsweredNegative(h))
    /\ [][\A h \in Handlers : \A g \in Handlers :
            (PersistedNotFound(g) /\ ReceivesSame(h, g)) =>
                (hreq'[h].cached.hit /\ hreq'[h].cached.data.status = "not_found")]_vars

-----------------------------------------------------------------------------
(* Properties of mergeRatingsData *)

RatingSources == {"imdb", "rottenTomatoes", "metacritic"}

\* a score that is present and not 'N/A'
Populated(score) == Truthy(score) /\ score # "N/A"

\* C10: for each rating source mergeRatingsData yields the fresh score when
\* it is populated, otherwise the existing score when that is populated,
\* otherwise null; a source populated in either input is populated in the
\* result, and a score of the result is a score of one of the inputs
C10_MergeKeepsSources ==
    mergeIn.called =>
        \A src \in RatingSources :
            LET f == mergeIn.fresh.ratings[src]
                e == mergeIn.existing.ratings[src]
                m == mergeOut.ratings[src]
            IN  /\ m = (IF Populated(f) THEN f ELSE IF Populated(e) THEN e ELSE NULL)
                /\ (Populated(f) \/ Populated(e)) => Populated(m)
                /\ m \in {NULL, f, e}

\* the merge of (imdb=8.1, rt absent) with fresh (imdb absent, rt=7.0,
\* metacritic 'N/A') keeps both scores
C10_Witness ==
    /\ mergeIn.called
    /\ mergeIn.existing.ratings.imdb = "8.1" /\ mergeIn.fresh.ratings.imdb = NULL
    /\ mergeIn.existing.ratings.rottenTomatoes = NULL
    /\ mergeIn.fresh.ratings.rottenTomatoes = "7.0"
    /\ mergeIn.fresh.ratings.metacritic = "N/A"
    /\ mergeOut.ratings.imdb = "8.1"
    /\ mergeOut.ratings.rottenTomatoes = "7.0"

-----------------------------------------------------------------------------
(* Enrichment, degradation and the missing credential *)

\* request h, for (no id, title T, year Y), read a partial success entry
\* that a request for (no id, T, no year) stored
EnrichCase(h) ==
    /\ hreq[h].pc \notin {"idle", "cacheRead"}
    /\ ~Truthy(hreq[h].videoId) /\ Truthy(hreq[h].year)
    /\ hreq[h].cached.hit
    /\ hreq[h].cached.data.status = "success"
    /\ hreq[h].cached.data.completeness = "partial"
    /\ \E g \in Handlers \ {h} :
        /\ hreq[g].pc # "idle"
        /\ ~Truthy(hreq[g].videoId) /\ ~Truthy(hreq[g].year)
        /\ hreq[g].title = hreq[h].title
        /\ fetch[g].registered /\ fetch[g].result.success

\* request h is not answered before its own fetch, which was given a
\* credential and a title, has settled: the API was called
AnsweredAfterApi(h) ==
    hreq[h].responded => (fetch[h].registered /\ fetch[h].pc = "settled")

\* data is the merge of old with a fresh record of the provider: complete,
\* and per source the fresh score when populated, else the old one
IsMergeOf(data, old, year, t) ==
    /\ data.status = "success"
    /\ data.completeness = "full"
    /\ \E api \in ApiResponses :
        LET fresh == normalizeOmdbResponse(api, year, t)
        IN  \A src \in RatingSources :
                data.ratings[src] =
                    (IF Populated(fresh.ratings[src]) THEN fresh.ratings[src]
                     ELSE IF Populated(old.ratings[src]) THEN old.ratings[src]
                     ELSE NULL)

\* a step in which the API answers fetch f with a match
ApiSucceeds(f) ==
    fetch[f].pc = "api" /\ fetch'[f].pc = "writing" /\ fetch'[f].result.success

\* after the step, get returns data under the title+year key and under the
\* title key of request h
ReadableUnderBothKeys(h, data) ==
    /\ CacheGet(memoryCache', storage', now', NULL, hreq[h].title, hreq[h].year).res
           = Hit(data, "memory")
    /\ CacheGet(memoryCache', storage', now', NULL, hreq[h].title, NULL).res
           = Hit(data, "memory")
    /\ \A k \in {TitleYearKey(hreq[h].title, hreq[h].year), normalizeTitle(hreq[h].title)} :
        /\ Has(storage', SKey(k)) /\ ~IsPtr(storage'[SKey(k)])
        /\ storage'[SKey(k)].data = data

\* C11 as amended: with a credential configured, a request for (no id, T,
\* Y) that hits the partial entry of (no id, T, no year) is answered only
\* after its API call, and on API success the merge of the old and the
\* fresh data is persisted with completeness 'full', readable under the
\* title+year key and the title key
C11_EnrichmentWithCredential ==
    /\ [](\A h \in Handlers :
            (EnrichCase(h) /\ Truthy(hreq[h].apiKey)) => AnsweredAfterApi(h))
    /\ [][\A h \in Handlers :
            (EnrichCase(h) /\ ApiSucceeds(h)) =>
                /\ IsMergeOf(fetch'[h].result.data, hreq[h].cached.data, hreq[h].year, now)
                /\ ReadableUnderBothKeys(h, fetch'[h].result.data)]_vars

\* the enrichment request was answered with merged, complete data that
\* holds a score of the old and a score of the fresh record
C11_Witness ==
    \E h \in Handlers :
        /\ EnrichCase(h)
        /\ hreq[h].responded /\ hreq[h].response.success
        /\ hreq[h].response.source = "api"
        /\ hreq[h].response.data.completeness = "full"
        /\ hreq[h].cached.data.ratings.imdb = "7.0"
        /\ hreq[h].cached.data.ratings.rottenTomatoes = NULL
        /\ hreq[h].response.data.ratings.imdb = "7.0"
        /\ hreq[h].response.data.ratings.rottenTomatoes = "90%"

\* C11: a request for (no id, T, Y) that hits the partial entry of (no id,
\* T, no year) is answered only after its API call, and on API success the
\* merge of the old and the fresh data is persisted with completeness
\* 'full', readable under the title+year key and the title key
C11_Enrichment ==
    /\ [](\A h \in Handlers : EnrichCase(h) => AnsweredAfterApi(h))
    /\ [][\A h \in Handlers :
            (EnrichCase(h) /\ ApiSucceeds(h)) =>
                /\ IsMergeOf(fetch'[h].result.data, hreq[h].cached.data, hreq[h].year, now)
                /\ ReadableUnderBothKeys(h, fetch'[h].result.data)]_vars


\* the identity (videoId, title, year) of request h
IdentityOf(h) == <<hreq[h].videoId, hreq[h].title, hreq[h].year>>

\* a step in which the API call of fetch f ends in not-found or in a
\* transport failure
ApiFails(f) ==
    fetch[f].pc = "api" /\ fetch'[f].pc # "api" /\ ~ApiSucceeds(f)

\* get returns a success entry for the identity of request h
SuccessCached(h) ==
    GetNow(IdentityOf(h)).hit /\ GetNow(IdentityOf(h)).data.status = "success"

\* the fetch returns success=true with a success entry and the step writes
\* nothing to the memory cache or to storage
Degrades(f) ==
    /\ fetch'[f].result.success
    /\ fetch'[f].result.data.status = "success"
    /\ UNCHANGED <<memoryCache, storage>>

\* C12: when a success entry is cached for the requested identity and the
\* API call ends in not-found or in a transport failure, the result is
\* success=true with a cached success entry and no not_found or error entry
\* is written
C12_GracefulDegradation ==
    [][\A f \in Handlers : (ApiFails(f) /\ SuccessCached(f)) => Degrades(f)]_vars

\* the same for the success entry that the request itself read from the
\* cache before the API call
DegradesForOwnRead ==
    [][\A f \in Handlers :
        (ApiFails(f) /\ CachedSuccess(fetch[f].cached)) =>
            (Degrades(f) /\ fetch'[f].result.data = fetch[f].cached.data)]_vars


\* no credential has been configured since request h arrived
NoCredential(h) ==
    hreq[h].pc # "idle" /\ hreq[h].saves = nSaves /\ ~Truthy(omdbApiKey)

\* the fetch of request h holds a token of the rate limiter or has sent a
\* lookup with it
TokenConsumed(f) == fetch[f].pc \in {"acquired", "api", "writing"}

\* request h read the cache itself (it was not attached to a pending fetch)
ReadTheCache(h) == hreq[h].awaiting = 0 /\ hreq[h].pc \notin {"idle", "cacheRead"}

\* the response of request h carries the entry it read from the cache
CarriesCached(h) ==
    /\ hreq[h].response.data = hreq[h].cached.data
    /\ hreq[h].response.source = hreq[h].cached.source
    /\ hreq[h].response.error = NULL

\* C13 as amended: without a credential a request consumes no token and
\* starts no lookup; a request that read the cache is answered with the
\* cached entry if there is one, unless that entry is a not_found entry and
\* the request sets enrichExisting, and with NO_API_KEY otherwise
C13_MissingCredentialSuccessOnly ==
    \A h \in Handlers :
        NoCredential(h) =>
            /\ ~TokenConsumed(h)
            /\ (ReadTheCache(h) /\ hreq[h].responded) =>
                IF hreq[h].cached.hit
                   /\ ~(hreq[h].cached.data.status = "not_found" /\ hreq[h].enrichExisting)
                THEN CarriesCached(h)
                ELSE hreq[h].response = Fail("NO_API_KEY")

\* after the credential was cleared, a request with enrichExisting was
\* answered with the cached success entry and another one, for which
\* nothing is cached, with NO_API_KEY
C13_Witness ==
    /\ rateLimiter.tokens = maxTokens - 1
    /\ \E h \in Handlers :
        /\ NoCredential(h) /\ ReadTheCache(h) /\ hreq[h].responded
        /\ hreq[h].enrichExisting
        /\ hreq[h].cached.hit /\ hreq[h].cached.data.status = "success"
        /\ CarriesCached(h) /\ hreq[h].response.success

\* C13: without a credential a request consumes no token and starts no
\* lookup; a request that read the cache is answered with the cached entry
\* if there is one, and with NO_API_KEY otherwise
C13_MissingCredential ==
    \A h \in Handlers :
        NoCredential(h) =>
            /\ ~TokenConsumed(h)
            /\ (ReadTheCache(h) /\ hreq[h].responded) =>
                IF hreq[h].cached.hit
                THEN CarriesCached(h)
                ELSE hreq[h].response = Fail("NO_API_KEY")


-----------------------------------------------------------------------------
(* Transport failures *)

\* a step in which the API call of fetch f fails with a network or HTTP
\* failure while the request read no success entry from the cache
TransportFails(f) ==
    /\ fetch[f].pc = "api" /\ fetch'[f].pc = "settled"
    /\ ~CachedSuccess(fetch[f].cached)

\* after the step, storage holds an entry with status 'error' and the TTL
\* of one hour under the request key of request h
ErrorEntryPersisted(h) ==
    LET k == SKey(hreq[h].requestKey)
    IN  /\ Has(storage', k) /\ ~IsPtr(storage'[k])
        /\ storage'[k].data.status = "error"
        /\ storage'[k].ttl = 60 * 60 * 1000

\* C14: a transport failure of the API call without a cached success entry
\* persists an entry with status 'error' and returns a failure result
C14_TransportErrorCached ==
    [][\A f \in Handlers :
        TransportFails(f) => (ErrorEntryPersisted(f) /\ ~fetch'[f].result.success)]_vars


\* fetch f has written a not_found entry and is about to return the failure
\* result of its lookup
PersistsNotFound(f) ==
    /\ fetch[f].pc = "writing" /\ ~fetch[f].result.success
    /\ LET k == SKey(MasterKey(hreq[f].videoId, hreq[f].title, hreq[f].year))
       IN  Has(storage, k) /\ ~IsPtr(storage[k]) /\ storage[k].data.status = "not_found"

\* C15: a not_found entry is persisted only for a lookup in which the
\* provider reported no match, never for one in which a request to the
\* provider failed
C15_TransportErrorNotNoMatch ==
    \A f \in Handlers : PersistsNotFound(f) => fetch[f].result.error # FailedToFetch


-----------------------------------------------------------------------------
(* The fetch orchestrator with the operations it awaits completing *)

\* the requests of the fair orchestrator: title A alone and with the video
\* id 7, the video id 7 without a title, and neither id nor title
LIdentities ==
    { <<NULL, TitleA, NULL>>, <<"7", TitleA, NULL>>, <<"7", NullTitle, NULL>>,
      <<NULL, NullTitle, NULL>> }

\* the outcomes of its lookups: an exact match, no match, a failing search
LNetOutcomes ==
    { [exact |-> ApiTrue("7.0", NULL, "N/A"), search |-> "none", detail |-> NetFail],
      [exact |-> ApiFalse, search |-> "none", detail |-> NetFail],
      [exact |-> ApiFalse, search |-> "fail", detail |-> NetFail] }

\* time passes until the timer of the waiting acquire of fetch f is due
TimerDue(f) ==
    /\ fetch[f].pc = "waiting"
    /\ now < fetch[f].wakeAt
    /\ now' = fetch[f].wakeAt
    /\ UNCHANGED <<memoryCache, storage, nTicks, seqVars, orchVars, mergeVars, sideVars>>

LiveInit ==
    /\ memoryCache = <<>>
    /\ storage = <<>>
    /\ now = 1
    /\ nTicks = 0
    /\ lastOp = NoOp
    /\ nSets = 0
    /\ omdbApiKey \in {"", "key"}
    /\ rateLimiter \in { [tokens |-> n, lastRefill |-> 1] : n \in {0, maxTokens} }
    /\ pendingRequests = <<>>
    /\ hreq = [h \in Handlers |-> IdleHandler]
    /\ fetch = [h \in Handlers |-> NoFetch]
    /\ mergeIn = NoMerge
    /\ mergeOut = UndefinedData
    /\ nSaves = 0
    /\ faultOp = NoFault
    /\ limiterCalls = NoCalls
    /\ ratingsStore = NoStore
    /\ session = NoSession
    /\ options = DefaultOptions
    /\ clearReq = NoClear
    /\ pureCall = NoPure

\* the continuation of request h after the storage operation it awaits
StorageCompletes(h) ==
    H_AfterCacheRead(h) \/ H_AfterLink(h) \/ H_AfterKeyRead(h)
    \/ F_AfterKeyRead(h) \/ F_AfterAcquire(h) \/ F_AfterWrite(h)

\* the lookup of fetch f completes
NetworkCompletes(f) ==
    (\E net \in LNetOutcomes : F_ApiReturn(f, fetchFromOmdb(net))) \/ F_ApiThrow(f)

\* the timer of the waiting acquire of fetch f becomes due and fires
TimerCompletes(f) == TimerDue(f) \/ F_TimerFire(f)

\* the promise request h awaits has settled and its continuation runs
PromiseCompletes(h) == H_FetchSettled(h) \/ H_PendingSettled(h)

LiveNext ==
    \/ \E h \in Handlers, id \in LIdentities, fl \in RequestFlags :
         H_Receive(h, id, fl[1], fl[2])
    \/ \E h \in Handlers : StorageCompletes(h)
    \/ \E f \in Handlers : NetworkCompletes(f)
    \/ \E f \in Handlers : TimerCompletes(f)
    \/ \E h \in Handlers : PromiseCompletes(h)

\* storage operations, lookups, timers and settled promises complete
LiveFairness ==
    \A h \in Handlers :
        /\ WF_vars(StorageCompletes(h))
        /\ WF_vars(NetworkCompletes(h))
        /\ WF_vars(TimerCompletes(h))
        /\ WF_vars(PromiseCompletes(h))

SpecLive == LiveInit /\ [][LiveNext]_vars /\ LiveFairness

\* a structured result: success with data, or a failure with an error or
\* with the cached negative entry
Structured(result) ==
    /\ result.success \in BOOLEAN
    /\ result.success => (result.data # UndefinedData /\ result.error = NULL)
    /\ ~result.success => (result.error # NULL \/ result.data.status = "not_found")

\* C16: a request that has returned was answered with a structured result,
\* an answer once sent is never replaced, and every request received is
\* eventually answered
C16_AnsweredExactlyOnce ==
    /\ [](\A h \in Handlers :
            /\ hreq[h].pc = "done" => hreq[h].responded
            /\ hreq[h].responded => (hreq[h].pc = "done" /\ Structured(hreq[h].response)))
    /\ [][\A h \in Handlers :
            hreq[h].responded =>
                (hreq'[h].responded /\ hreq'[h].response = hreq[h].response)]_vars
    /\ \A h \in Handlers : (hreq[h].pc # "idle") ~> hreq[h].responded

\* both requests are answered: one attached to the pending fetch of the
\* other, which waited for a token and whose lookup then failed
C16_Witness ==
    /\ hreq[1].responded /\ hreq[2].responded
    /\ hreq[2].awaiting = 1
    /\ fetch[1].registered /\ fetch[1].pc = "settled"
    /\ now > 1
    /\ hreq[1].response = Fail("HTTP error")
    /\ hreq[2].response = Fail("HTTP error")


-----------------------------------------------------------------------------
(* CacheManager over a durable store whose operations can reject.  `fails` *)
(* is the set of storage reads of one get() that reject when performed:    *)
(* the read of a pointer's target by resolve ("memoryTarget"), the batched *)
(* read of the candidate keys ("batch"), and the read of a pointer's       *)
(* target in the storage loop ("storageTarget")                            *)

StorageReads == {"memoryTarget", "batch", "storageTarget"}

\* the promise of get() rejected
Rejected == [hit |-> FALSE, data |-> UndefinedData, source |-> "<rejected>"]

\* resolve(key, 'memory'): its read of the target is outside any try block
resolveF(key, mem, sto, t, fails) ==
    LET value == mem[key]
    IN  IF IsPtr(value) /\ ~(Has(mem, value.target) /\ isValid(mem[value.target], t))
           /\ "memoryTarget" \in fails
        THEN [res |-> Rejected, mem |-> mem, failed |-> {"memoryTarget"}]
        ELSE resolve(key, mem, sto, t) @@ [failed |-> {}]

\* the loop over the values read from storage, inside the try block: a
\* rejected read of a target ends in the catch block and get returns null
RECURSIVE StorageLoopF(_, _, _, _, _, _)
StorageLoopF(keys, i, mem, sto, t, fails) ==
    IF i > Len(keys) THEN [res |-> Miss, mem |-> mem, failed |-> {}]
    ELSE LET key == keys[i]
             sk == STORAGE_PREFIX \o key
         IN  IF ~Has(sto, sk) THEN StorageLoopF(keys, i + 1, mem, sto, t, fails)
             ELSE LET val == sto[sk]
                  IN  IF IsPtr(val)
                      THEN LET tk == STORAGE_PREFIX \o val.target
                           IN  IF "storageTarget" \in fails
                               THEN [res |-> Miss, mem |-> mem, failed |-> {"storageTarget"}]
                               ELSE IF Has(sto, tk) /\ isValid(sto[tk], t)
                               THEN [res |-> Hit(DataOf(sto[tk]), "storage"),
                                     mem |-> Put(Put(mem, val.target, sto[tk]), key, val),
                                     failed |-> {}]
                               ELSE StorageLoopF(keys, i + 1, mem, sto, t, fails)
                      ELSE IF isValid(val, t)
                      THEN [res |-> Hit(val.data, "storage"), mem |-> Put(mem, key, val),
                            failed |-> {}]
                      ELSE StorageLoopF(keys, i + 1, mem, sto, t, fails)

\* the loop over the memory cache, then the batched read in the try block
RECURSIVE MemoryLoopF(_, _, _, _, _, _)
MemoryLoopF(keys, i, mem, sto, t, fails) ==
    IF i > Len(keys)
    THEN IF "batch" \in fails
         THEN [res |-> Miss, mem |-> mem, failed |-> {"batch"}]
         ELSE StorageLoopF(keys, 1, mem, sto, t, fails)
    ELSE IF Has(mem, keys[i])
    THEN LET r == resolveF(keys[i], mem, sto, t, fails)
         IN  IF r.res.hit \/ r.res = Rejected THEN r
             ELSE MemoryLoopF(keys, i + 1, Del(mem, keys[i]), sto, t, fails)
    ELSE MemoryLoopF(keys, i + 1, mem, sto, t, fails)

\* CacheManager.get when the reads in `fails` reject: [res, mem, failed],
\* failed being the reads that were performed and rejected
CacheGetF(mem, sto, t, videoId, title, year, fails) ==
    MemoryLoopF(getSearchKeys(videoId, title, year), 1, mem, sto, t, fails)

\* CacheManager.set when chrome.storage.local.set rejects: the memory cache
\* is written before the await, the rejection is caught
CacheSetF(mem, sto, t, videoId, title, year, data, writeFails) ==
    LET w == CacheSet(mem, sto, t, videoId, title, year, data)
    IN  [mem |-> w.mem, sto |-> IF writeFails THEN sto ELSE w.sto]

\* await cacheManager.set(videoId, title, year, data)
FM_Set(videoId, title, year, data, writeFails) ==
    /\ nSets < MaxSets
    /\ LET w == CacheSetF(memoryCache, storage, now, videoId, title, year, data, writeFails)
       IN  /\ memoryCache' = w.mem
           /\ storage' = w.sto
    /\ faultOp' = [op |-> "set", failed |-> IF writeFails THEN {"write"} ELSE {},
                   outcome |-> "resolved", hit |-> FALSE]
    /\ nSets' = nSets + 1
    /\ UNCHANGED <<now, nTicks, lastOp, orchVars, mergeVars, nSaves, limiterCalls, ratingsStore, restVars>>

\* await cacheManager.get(videoId, title, year)
FM_Get(videoId, title, year, fails) ==
    /\ LET r == CacheGetF(memoryCache, storage, now, videoId, title, year, fails)
       IN  /\ memoryCache' = r.mem
           /\ faultOp' = [op |-> "get", failed |-> r.failed,
                          outcome |-> IF r.res = Rejected THEN "rejected" ELSE "resolved",
                          hit |-> r.res.hit]
    /\ UNCHANGED <<storage, now, nTicks, seqVars, orchVars, mergeVars, nSaves,
                   limiterCalls, ratingsStore, restVars>>

\* the identities of the caller: the title A with and without the video id 7
FIdentities == { <<NULL, TitleA, NULL>>, <<"7", TitleA, NULL>> }

FaultyNext ==
    \/ \E id \in FIdentities : \E data \in CacheData(now) : \E writeFails \in BOOLEAN :
         FM_Set(id[1], id[2], id[3], data, writeFails)
    \/ \E id \in FIdentities : \E fails \in SUBSET StorageReads :
         FM_Get(id[1], id[2], id[3], fails)
    \/ \E d \in TickSteps : Tick(d)

SpecFaulty == CacheInit /\ [][FaultyNext]_vars

\* the last call met a rejected storage operation
StorageFailed == faultOp.failed # {}

\* C17: a get() that met a rejected storage read resolved to a miss, and a
\* set() whose storage write rejected resolved
C17_StorageFailuresSilent ==
    /\ (faultOp.op = "get" /\ StorageFailed) =>
            (faultOp.outcome = "resolved" /\ ~faultOp.hit)
    /\ (faultOp.op = "set" /\ StorageFailed) => faultOp.outcome = "resolved"

\* the same for every storage operation but the read of the target of a
\* pointer found in memory
SilentInsideTry ==
    (StorageFailed /\ faultOp.failed # {"memoryTarget"}) =>
        (faultOp.outcome = "resolved" /\ ~faultOp.hit)


-----------------------------------------------------------------------------
(* RateLimiter with concurrent callers of acquire()                        *)

Acquirers == 1..MaxAcquirers

\* a caller: where its acquire() call stands, when its timer is due, when
\* the call was made, whether the call has waited, the calls it has made
IdleCall == [pc |-> "idle", wakeAt |-> 0, calledAt |-> 0, waited |-> FALSE, calls |-> 0]

\* clock advances of the limiter: one millisecond and one window
LTickSteps == {1, windowMs}

\* the limiter as constructed, or with its first window's tokens taken
LimiterInit ==
    /\ memoryCache = <<>>
    /\ storage = <<>>
    /\ now = 1
    /\ nTicks = 0
    /\ lastOp = NoOp
    /\ nSets = 0
    /\ omdbApiKey = NULL
    /\ \E n \in {0, maxTokens} :
         /\ rateLimiter = [tokens |-> n, lastRefill |-> 1]
         /\ limiterCalls = [proc |-> [a \in Acquirers |-> IdleCall],
                            grants |-> maxTokens - n, refilledTo |-> maxTokens,
                            requests |-> 0]
    /\ pendingRequests = <<>>
    /\ hreq = [h \in Handlers |-> IdleHandler]
    /\ fetch = [h \in Handlers |-> NoFetch]
    /\ mergeIn = NoMerge
    /\ mergeOut = UndefinedData
    /\ nSaves = 0
    /\ faultOp = NoFault
    /\ ratingsStore = NoStore
    /\ session = NoSession
    /\ options = DefaultOptions
    /\ clearReq = NoClear
    /\ pureCall = NoPure

\* one pass of acquire() by caller a, whose record is c: refillTokens, then
\* a token is taken and the call returns, or the timer is set
AcquirePass(a, c) ==
    LET r == acquire(rateLimiter, now)
        refilled == refillTokens(rateLimiter, now) # rateLimiter
    IN  /\ rateLimiter' = r.rl
        /\ limiterCalls' =
             [proc |-> [limiterCalls.proc EXCEPT ![a] =
                          IF r.granted THEN [c EXCEPT !.pc = "returned"]
                          ELSE [c EXCEPT !.pc = "waiting", !.wakeAt = r.wakeAt,
                                         !.waited = TRUE]],
              grants |-> (IF refilled THEN 0 ELSE limiterCalls.grants)
                         + (IF r.granted THEN 1 ELSE 0),
              refilledTo |-> IF refilled THEN refillTokens(rateLimiter, now).tokens
                             ELSE limiterCalls.refilledTo,
              requests |-> IF refilled THEN 0 ELSE limiterCalls.requests]

\* caller a calls rateLimiter.acquire()
L_Acquire(a) ==
    /\ limiterCalls.proc[a].pc \in {"idle", "returned"}
    /\ limiterCalls.proc[a].calls < MaxCalls
    /\ AcquirePass(a, [IdleCall EXCEPT !.calledAt = now,
                                       !.calls = limiterCalls.proc[a].calls + 1])
    /\ UNCHANGED <<cacheVars, seqVars, omdbApiKey, pendingRequests, hreq, fetch, mergeVars,
                   nSaves, faultOp, ratingsStore, restVars>>

\* the timer of caller a fires and acquire() runs again
L_TimerFire(a) ==
    /\ limiterCalls.proc[a].pc = "waiting"
    /\ now >= limiterCalls.proc[a].wakeAt
    /\ AcquirePass(a, limiterCalls.proc[a])
    /\ UNCHANGED <<cacheVars, seqVars, omdbApiKey, pendingRequests, hreq, fetch, mergeVars,
                   nSaves, faultOp, ratingsStore, restVars>>

\* time passes until the timer of caller a is due
L_TimerDue(a) ==
    /\ limiterCalls.proc[a].pc = "waiting"
    /\ now < limiterCalls.proc[a].wakeAt
    /\ now' = limiterCalls.proc[a].wakeAt
    /\ UNCHANGED <<memoryCache, storage, nTicks, seqVars, orchVars, mergeVars, sideVars>>

\* time passes
L_Tick(d) ==
    /\ nTicks < MaxTicks
    /\ now' = now + d
    /\ nTicks' = nTicks + 1
    /\ UNCHANGED <<memoryCache, storage, seqVars, orchVars, mergeVars, sideVars>>

LimiterNext ==
    \/ \E a \in Acquirers : L_Acquire(a)
    \/ \E a \in Acquirers : L_TimerFire(a)
    \/ \E a \in Acquirers : L_TimerDue(a)
    \/ \E d \in LTickSteps : L_Tick(d)

\* time advances and due timers fire
LimiterFairness ==
    \A a \in Acquirers : WF_vars(L_TimerDue(a)) /\ WF_vars(L_TimerFire(a))

SpecLimiter == LimiterInit /\ [][LimiterNext]_vars /\ LimiterFairness

\* this step refills the bucket
Refills == rateLimiter'.lastRefill # rateLimiter.lastRefill

\* C18: the tokens stay within 0..maxTokens; a refill happens only when
\* windowMs has elapsed since lastRefill and sets the tokens to maxTokens;
\* between two refills at most maxTokens calls of acquire() return
C18_TokenBucketBounds ==
    /\ [](/\ rateLimiter.tokens >= 0 /\ rateLimiter.tokens <= maxTokens
          /\ limiterCalls.grants <= maxTokens
          /\ limiterCalls.refilledTo = maxTokens)
    /\ [][/\ Refills => (now - rateLimiter.lastRefill >= windowMs
                         /\ rateLimiter'.lastRefill = now)
          /\ rateLimiter'.tokens > rateLimiter.tokens => Refills]_vars

\* since a refill maxTokens calls have returned, and a further call waits
C18_Witness ==
    /\ \E a \in Acquirers : limiterCalls.proc[a].pc = "waiting"
    /\ rateLimiter.lastRefill > 1
    /\ rateLimiter.tokens = 0
    /\ limiterCalls.grants = maxTokens

\* a token available to the call caller a makes in this step
CallsWithToken(a) ==
    /\ limiterCalls.proc[a].pc \in {"idle", "returned"}
    /\ limiterCalls'.proc[a].calls = limiterCalls.proc[a].calls + 1
    /\ refillTokens(rateLimiter, now).tokens > 0

\* caller a starts to wait in this step
StartsWaiting(a) ==
    /\ limiterCalls'.proc[a].pc = "waiting"
    /\ limiterCalls'.proc[a] # limiterCalls.proc[a]

\* C19: a call with a token available takes exactly one and returns without
\* waiting; a call finding the bucket empty sets its timer to the larger of
\* the rest of the window and 100ms and returns no earlier; every call of
\* acquire() eventually returns
C19_AcquireTerminates ==
    /\ [][\A a \in Acquirers :
            /\ CallsWithToken(a) =>
                 /\ limiterCalls'.proc[a].pc = "returned"
                 /\ ~limiterCalls'.proc[a].waited
                 /\ rateLimiter'.tokens = refillTokens(rateLimiter, now).tokens - 1
            /\ StartsWaiting(a) =>
                 /\ rateLimiter'.tokens = 0
                 /\ limiterCalls'.proc[a].wakeAt - now
                      = Max(windowMs - (now - rateLimiter'.lastRefill), 100)
            /\ (limiterCalls.proc[a].pc = "waiting" /\ limiterCalls'.proc[a].pc = "returned")
                 => now >= limiterCalls.proc[a].wakeAt]_vars
    /\ \A a \in Acquirers :
         (limiterCalls.proc[a].pc = "waiting") ~> (limiterCalls.proc[a].pc = "returned")

\* a call that waited twice, for 100ms and then for a whole window, because
\* the other callers took every token of the refill, has returned
C19_Witness ==
    \E a \in Acquirers :
        /\ limiterCalls.proc[a].pc = "returned"
        /\ limiterCalls.proc[a].waited
        /\ now - limiterCalls.proc[a].calledAt >= minWaitMs + windowMs
        /\ now - limiterCalls.proc[a].calledAt < 2 * windowMs


-----------------------------------------------------------------------------
(* RatingsStore: the session cache of a content script and its subscribers *)

Callbacks == 1..MaxCallbacks

\* the keys of the session cache: a title key, an id key, an IMDb id
StoreKeys == {"a", "netrot_7", "tt1"}

\* a data object as RatingsStore.set reads it
StoreData(status, netflixId, imdbId) ==
    [status |-> status, netflixId |-> netflixId, imdbId |-> imdbId, normalizedTitle |-> NULL]

\* the data of the responses: an error, and a match with and without ids
StoreValues ==
    { StoreData("error", NULL, NULL), StoreData("success", NULL, "tt1"),
      StoreData("success", "7", "tt1") }

\* what a callback that was never invoked has received
Nothing == [n |-> 0, last |-> StoreData("<none>", NULL, NULL)]

\* subscribe never invoking the callback
Replay_Never(cache, key) == <<>>

\* the arguments of the calls subscribe makes to the callback: the cached
\* value when the cache has the key
Replay(cache, key) == IF Has(cache, key) THEN <<cache[key]>> ELSE <<>>

\* the subscribers registered under key
SubscribersOf(subscribers, key) == IF Has(subscribers, key) THEN subscribers[key] ELSE {}

\* the callback was called with each of args in turn
Invoke(rcv, args) ==
    IF args = <<>> THEN rcv ELSE [n |-> rcv.n + Len(args), last |-> args[Len(args)]]

\* the keys RatingsStore.set stores data under, and notify notifies
KeysOf(key, data) ==
    {key}
    \cup (IF Truthy(data.netflixId) THEN {IdKey(data.netflixId)} ELSE {})
    \cup (IF Truthy(data.imdbId) THEN {data.imdbId} ELSE {})
    \cup (IF Truthy(data.normalizedTitle) THEN {data.normalizedTitle} ELSE {})

\* the callbacks that throw when called
Throwers == {1}

\* the callbacks registered under key in the order of the Set holding them:
\* the order in which they were added
RECURSIVE InOrder(_, _)
InOrder(stamp, pairs) ==
    IF pairs = {} THEN <<>>
    ELSE LET first == CHOOSE p \in pairs : \A q \in pairs : stamp[p] <= stamp[q]
         IN  <<first>> \o InOrder(stamp, pairs \ {first})

SubscriptionOrder(store, key) ==
    InOrder(store.stamp, { p \in DOMAIN store.stamp : p[1] = key })

\* the elements of a sequence, each kept at its first place
RECURSIVE Dedup(_)
Dedup(seq) ==
    IF seq = <<>> THEN <<>>
    ELSE LET init == Dedup(SubSeq(seq, 1, Len(seq) - 1))
             x == seq[Len(seq)]
         IN  IF \E i \in 1..Len(init) : init[i] = x THEN init ELSE Append(init, x)

\* the keys notify adds to keysToNotify, in the order it adds them
AddedKeys(key, data) ==
    <<key>>
    \o (IF Truthy(data.netflixId) THEN <<IdKey(data.netflixId)>> ELSE <<>>)
    \o (IF Truthy(data.imdbId) THEN <<data.imdbId>> ELSE <<>>)
    \o (IF Truthy(data.normalizedTitle) THEN <<data.normalizedTitle>> ELSE <<>>)

\* keysToNotify as an array
NotifyKeys_NoDedup(key, data) == AddedKeys(key, data)

\* keysToNotify, a Set, in its iteration order
NotifyKeys(key, data) == Dedup(AddedKeys(key, data))

\* the pairs <<key, callback>> notify iterates over, in order
RECURSIVE CallsFor(_, _)
CallsFor(store, keys) ==
    IF keys = <<>> THEN <<>>
    ELSE SubscriptionOrder(store, Head(keys)) \o CallsFor(store, Tail(keys))

\* the calls made when the iteration ends at the first callback that throws
Performed_StopAtThrow(calls) ==
    IF \E i \in 1..Len(calls) : calls[i][2] \in Throwers
    THEN SubSeq(calls, 1, CHOOSE i \in 1..Len(calls) :
                            /\ calls[i][2] \in Throwers
                            /\ \A j \in 1..(i - 1) : calls[j][2] \notin Throwers)
    ELSE calls

\* the calls notify makes: each is inside a try block whose catch logs
Performed(calls) == calls

\* RatingsStore.notify(key, data): the calls made, as pairs <<key, callback>>
Notify(store, key, data) == Performed(CallsFor(store, NotifyKeys(key, data)))

StoreInit ==
    /\ memoryCache = <<>>
    /\ storage = <<>>
    /\ now = 1
    /\ nTicks = 0
    /\ lastOp = NoOp
    /\ nSets = 0
    /\ omdbApiKey = NULL
    /\ rateLimiter = [tokens |-> maxTokens, lastRefill |-> 1]
    /\ pendingRequests = <<>>
    /\ hreq = [h \in Handlers |-> IdleHandler]
    /\ fetch = [h \in Handlers |-> NoFetch]
    /\ mergeIn = NoMerge
    /\ mergeOut = UndefinedData
    /\ nSaves = 0
    /\ faultOp = NoFault
    /\ limiterCalls = NoCalls
    /\ ratingsStore = [NoStore EXCEPT !.received = [cb \in Callbacks |-> Nothing]]
    /\ session = NoSession
    /\ options = DefaultOptions
    /\ clearReq = NoClear
    /\ pureCall = NoPure

StoreUnchanged ==
    UNCHANGED <<cacheVars, seqVars, orchVars, mergeVars, nSaves, faultOp, limiterCalls, restVars>>

\* ratingsStore.subscribe(key, cb)
RS_Subscribe(key, cb) ==
    /\ ratingsStore.nSubs < MaxSubscribes
    /\ LET args == Replay(ratingsStore.cache, key)
       IN  ratingsStore' =
             [ratingsStore EXCEPT
                !.subscribers = Put(@, key, SubscribersOf(@, key) \cup {cb}),
                !.stamp = IF Has(@, <<key, cb>>) THEN @
                          ELSE Put(@, <<key, cb>>, ratingsStore.nSubs + 1),
                !.handles = @ \cup {<<key, cb>>},
                !.lastSet = NoSet,
                !.received[cb] = Invoke(@, args),
                !.lastSub = [op |-> "subscribe", key |-> key, cb |-> cb, invoked |-> args,
                             before |-> ratingsStore.received[cb].n],
                !.nSubs = @ + 1]
    /\ StoreUnchanged

\* the handle deleting every callback registered under the key
Unsubscribe_WholeKey(store, key, cb) ==
    [store EXCEPT !.subscribers[key] = {},
                  !.stamp = [p \in {q \in DOMAIN @ : q[1] # key} |-> @[p]]]

\* the function returned by subscribe(key, cb):
\* () => this.subscribers.get(key)?.delete(callback)
Unsubscribe(store, key, cb) ==
    [store EXCEPT !.subscribers[key] = @ \ {cb},
                  !.stamp = Del(@, <<key, cb>>)]

\* the function subscribe(key, cb) returned is called, for the first time
\* or again
RS_Unsubscribe(key, cb) ==
    /\ <<key, cb>> \in ratingsStore.handles
    /\ ratingsStore' =
         [Unsubscribe(ratingsStore, key, cb) EXCEPT
            !.lastSub = [NoSub EXCEPT !.op = "unsubscribe", !.key = key, !.cb = cb],
            !.lastSet = NoSet]
    /\ StoreUnchanged

\* set() calling notify before it writes the cache entries
StoreSet_NotifyFirst(store, key, data) ==
    LET ks == KeysOf(key, data)
        calls == Notify(store, key, data)
        times(cb) == Cardinality({i \in 1..Len(calls) : calls[i][2] = cb})
    IN  [store EXCEPT
           !.cache = [k \in ks |-> data] @@ @,
           !.received = [cb \in Callbacks |->
                           Invoke(@[cb], [i \in 1..times(cb) |-> data])],
           !.lastSub = NoSub,
           !.lastSet = [op |-> "set", key |-> key, data |-> data, calls |-> calls,
                        cacheAtNotify |-> store.cache]]

\* RatingsStore.set(key, data): the cache entries are written, then notify
\* is called; cacheAtNotify is the cache the callbacks of notify can read
StoreSet(store, key, data) ==
    LET ks == KeysOf(key, data)
        written == [store EXCEPT !.cache = [k \in ks |-> data] @@ @]
        calls == Notify(written, key, data)
        times(cb) == Cardinality({i \in 1..Len(calls) : calls[i][2] = cb})
    IN  [written EXCEPT
           !.received = [cb \in Callbacks |->
                           Invoke(@[cb], [i \in 1..times(cb) |-> data])],
           !.lastSub = NoSub,
           !.lastSet = [op |-> "set", key |-> key, data |-> data, calls |-> calls,
                        cacheAtNotify |-> written.cache]]

\* RatingsStore.set(key, data), called when a response arrives
RS_Set(key, data) ==
    /\ ratingsStore.nSets < MaxStoreSets
    /\ ratingsStore' = [StoreSet(ratingsStore, key, data) EXCEPT !.nSets = @ + 1]
    /\ StoreUnchanged

\* RatingsStore.clear()
RS_Clear ==
    /\ ratingsStore.cache # <<>>
    /\ ratingsStore' = [ratingsStore EXCEPT !.cache = <<>>, !.lastSub = NoSub,
                                            !.lastSet = NoSet]
    /\ StoreUnchanged

StoreNext ==
    \/ \E key \in StoreKeys, cb \in Callbacks : RS_Subscribe(key, cb)
    \/ \E key \in StoreKeys, cb \in Callbacks : RS_Unsubscribe(key, cb)
    \/ \E key \in StoreKeys, data \in StoreValues : RS_Set(key, data)
    \/ RS_Clear

SpecStore == StoreInit /\ [][StoreNext]_vars

\* subscribe(key, cb) has just returned
Subscribed == ratingsStore.lastSub.op = "subscribe"

\* C20: when subscribe(key, cb) returns, cb has been invoked exactly once,
\* with the cached value, if the session cache holds key, and not at all if
\* it does not; either way cb is registered under key
C20_SubscribeReplay ==
    Subscribed =>
        LET s == ratingsStore.lastSub
            held == Has(ratingsStore.cache, s.key)
        IN  /\ held => /\ s.invoked = <<ratingsStore.cache[s.key]>>
                       /\ ratingsStore.received[s.cb].n = s.before + 1
                       /\ ratingsStore.received[s.cb].last = ratingsStore.cache[s.key]
            /\ ~held => /\ s.invoked = <<>>
                        /\ ratingsStore.received[s.cb].n = s.before
            /\ s.cb \in SubscribersOf(ratingsStore.subscribers, s.key)

\* a subscription under the id key replayed the value a response for the
\* title key stored there, to a callback that had been notified before
C20_Witness ==
    /\ Subscribed
    /\ ratingsStore.lastSub.key = "netrot_7"
    /\ ratingsStore.lastSub.invoked = <<StoreData("success", "7", "tt1")>>
    /\ ratingsStore.lastSub.before > 0
    /\ \E cb \in Callbacks : ratingsStore.received[cb].n = 0


-----------------------------------------------------------------------------
(* Notification *)

\* set(key, data) has just returned
JustSet == ratingsStore.lastSet.op = "set"

\* the keys data is stored and notified under
Aliases(key, data) ==
    {key}
    \cup (IF Truthy(data.netflixId) THEN {IdKey(data.netflixId)} ELSE {})
    \cup (IF Truthy(data.imdbId) THEN {data.imdbId} ELSE {})
    \cup (IF Truthy(data.normalizedTitle) THEN {data.normalizedTitle} ELSE {})

\* the subscriptions <<key, callback>> an update of key with data applies to
Applicable(key, data) ==
    { p \in DOMAIN ratingsStore.stamp : p[1] \in Aliases(key, data) }

\* C21: in the calls of one notify, the callbacks registered under one key
\* run in the order they subscribed, and every applicable subscription is
\* called, whichever callbacks throw
C21_NotifyIsolationAndOrder ==
    JustSet =>
        LET calls == ratingsStore.lastSet.calls
        IN  /\ \A i, j \in 1..Len(calls) :
                 (i < j /\ calls[i][1] = calls[j][1]) =>
                    ratingsStore.stamp[calls[i]] < ratingsStore.stamp[calls[j]]
            /\ \A p \in Applicable(ratingsStore.lastSet.key, ratingsStore.lastSet.data) :
                 \E i \in 1..Len(calls) : calls[i] = p

\* a callback that throws ran first, and after it another callback under
\* the same key and one under another key
C21_Witness ==
    /\ JustSet
    /\ Len(ratingsStore.lastSet.calls) = 3
    /\ ratingsStore.lastSet.calls[1][2] \in Throwers
    /\ ratingsStore.lastSet.calls[2][1] = ratingsStore.lastSet.calls[1][1]
    /\ ratingsStore.lastSet.calls[2][2] \notin Throwers
    /\ ratingsStore.lastSet.calls[3][1] # ratingsStore.lastSet.calls[1][1]

\* C22: one set(key, data) stores data under key and under each alias data
\* defines, and calls each callback once for each distinct of these keys it
\* is subscribed under
C22_FanOutOncePerKey ==
    JustSet =>
        LET calls == ratingsStore.lastSet.calls
            key == ratingsStore.lastSet.key
            data == ratingsStore.lastSet.data
        IN  /\ \A k \in Aliases(key, data) :
                 Has(ratingsStore.cache, k) /\ ratingsStore.cache[k] = data
            /\ \A p \in Applicable(key, data) :
                 Cardinality({ i \in 1..Len(calls) : calls[i] = p }) = 1
            /\ \A i \in 1..Len(calls) : calls[i] \in Applicable(key, data)

\* set was called with the id key for data naming the same id, and a
\* callback subscribed under that key and under the IMDb id was called twice
C22_Witness ==
    /\ JustSet
    /\ ratingsStore.lastSet.key = "netrot_7"
    /\ ratingsStore.lastSet.data.netflixId = "7"
    /\ \E cb \in Callbacks :
         /\ <<"netrot_7", cb>> \in DOMAIN ratingsStore.stamp
         /\ <<"tt1", cb>> \in DOMAIN ratingsStore.stamp
         /\ Cardinality({ i \in 1..Len(ratingsStore.lastSet.calls) :
                            ratingsStore.lastSet.calls[i][2] = cb }) = 2


-----------------------------------------------------------------------------
(* RatingsStore.get, fetch and fetchWithEnrichment, with the background    *)
(* script answering the messages they send                                 *)

\* getKey looking at the title before the id
getKey_TitleFirst(videoId, title, year) ==
    IF title # <<>> THEN normalizeTitle(title) ELSE "netrot_" \o videoId

\* RatingsStore.getKey; normalizeTitle(null) throws a TypeError
getKey(videoId, title, year) ==
    IF Truthy(videoId) THEN "netrot_" \o videoId
    ELSE IF title = NullTitle THEN THROWN
    ELSE IF Truthy(year) THEN normalizeTitle(title) \o "_" \o Year4(year)
    ELSE normalizeTitle(title)

\* the data of a response as the content script receives it: with the
\* normalizedTitle the background script put into it
ToStore(data, title) ==
    [status |-> data.status, completeness |-> data.completeness, imdbId |-> data.imdbId,
     netflixId |-> data.netflixId, fetchedAt |-> data.fetchedAt,
     enrichedAt |-> data.enrichedAt, ratings |-> data.ratings,
     normalizedTitle |-> IF TitleTruthy(title) THEN normalizeTitle(title) ELSE NULL]

\* errorData of RatingsStore.fetch at time t
StoreErrorData(t) == ToStore(MkData("error", NULL, NULL, NULL, t, NoRatings), NullTitle)

\* RatingsStore.mergeData(existing, fresh) at time t
mergeData(existing, fresh, t) ==
    [status |-> fresh.status,
     completeness |-> "full",
     imdbId |-> OrElse(fresh.imdbId, existing.imdbId),
     netflixId |-> OrElse(fresh.netflixId, existing.netflixId),
     fetchedAt |-> t,
     enrichedAt |-> IF fresh.enrichedAt # 0 THEN fresh.enrichedAt ELSE existing.enrichedAt,
     ratings |->
        [imdb |-> getValidValue(fresh.ratings.imdb, existing.ratings.imdb),
         rottenTomatoes |-> getValidValue(fresh.ratings.rottenTomatoes,
                                          existing.ratings.rottenTomatoes),
         metacritic |-> getValidValue(fresh.ratings.metacritic, existing.ratings.metacritic)],
     normalizedTitle |-> fresh.normalizedTitle]

\* the elements the content script asks ratings for: the title A alone,
\* with the year 2010, and with the video id 7
SIdentities == { <<NULL, TitleA, NULL>>, <<NULL, TitleA, "2010">>, <<"7", TitleA, NULL>> }

\* the outcomes of the lookups: two exact matches with different ratings,
\* and no match
SNetOutcomes ==
    { [exact |-> ApiTrue("7.0", NULL, "N/A"), search |-> "none", detail |-> NetFail],
      [exact |-> ApiTrue("8.0", NULL, "N/A"), search |-> "none", detail |-> NetFail],
      [exact |-> ApiFalse, search |-> "none", detail |-> NetFail] }

\* the FETCH_RATINGS message of fetch (kind "fetch") or fetchWithEnrichment
\* (kind "enrich"), with the session key and the existing value of the call
Message(kind, videoId, title, year, key, checkFreshness, existing) ==
    [kind |-> kind, videoId |-> videoId, title |-> title, year |-> year, key |-> key,
     enrichExisting |-> kind = "enrich",
     checkFreshness |-> kind = "fetch" /\ checkFreshness,
     existing |-> existing]

\* the messages for key whose response callback has not run
Outstanding(sess, key) ==
    { m \in 1..Len(sess.sent) : sess.sent[m].key = key /\ m \notin sess.done }

\* fetch sending its message whether or not one is pending
SendOrJoin_Always(sess, msg) ==
    [sess |-> [sess EXCEPT !.sent = Append(@, msg),
                           !.pending = Put(@, msg.key, Len(sess.sent) + 1)],
     promise |-> Len(sess.sent) + 1, sentNew |-> TRUE]

\* fetch and fetchWithEnrichment up to their return: the pending promise
\* for the key is returned, or the message is sent and its promise pending
SendOrJoin(sess, msg) ==
    IF Has(sess.pending, msg.key)
    THEN [sess |-> sess, promise |-> sess.pending[msg.key], sentNew |-> FALSE]
    ELSE [sess |-> [sess EXCEPT !.sent = Append(@, msg),
                                !.pending = Put(@, msg.key, Len(sess.sent) + 1)],
          promise |-> Len(sess.sent) + 1, sentNew |-> TRUE]

\* what get() returns: a value at once, or the promise of a message
\* (msg: the message the call sent or joined, 0 when none)
ValueNow(sj, value) ==
    [sj EXCEPT !.promise = 0] @@ [value |-> value, missed |-> FALSE, msg |-> sj.promise]
Awaited(sj) == sj @@ [value |-> StoreErrorData(0), missed |-> TRUE, msg |-> sj.promise]

\* RatingsStore.get(videoId, title, year, checkFreshness)
StoreGet(store, sess, videoId, title, year, checkFreshness) ==
    LET key == getKey(videoId, title, year)
        altKey == getKey(NULL, title, NULL)
        idle == [sess |-> sess, promise |-> 0, sentNew |-> FALSE]
        fetchMsg == Message("fetch", videoId, title, year, key, checkFreshness,
                            StoreErrorData(0))
    IN  IF Has(store.cache, key)
        THEN ValueNow(IF checkFreshness
                      THEN SendOrJoin(sess, [fetchMsg EXCEPT !.checkFreshness = TRUE])
                      ELSE idle,
                      store.cache[key])
        ELSE IF ~Truthy(videoId) /\ Truthy(year) /\ Has(store.cache, altKey)
        THEN LET existing == store.cache[altKey]
                 enrichMsg == Message("enrich", NULL, title, year, key, FALSE, existing)
             IN  IF checkFreshness THEN ValueNow(SendOrJoin(sess, enrichMsg), existing)
                 ELSE IF existing.completeness = "partial"
                 THEN Awaited(SendOrJoin(sess, enrichMsg))
                 ELSE ValueNow(idle, existing)
        ELSE Awaited(SendOrJoin(sess, fetchMsg))

SessionUnchanged ==
    UNCHANGED <<cacheVars, seqVars, orchVars, mergeVars, nSaves, faultOp, limiterCalls,
                options, clearReq, pureCall>>

\* injectWithSubscription of the content script, for an element with the
\* given identity: subscribe(key, callback) with a new callback, then
\* get(videoId, title, year, shouldRefresh), which is not reached when the
\* callback throws in subscribe
SS_Inject(videoId, title, year, shouldRefresh) ==
    /\ Len(session.calls) < MaxGets
    /\ LET cb == Len(session.calls) + 1
           key == getKey(videoId, title, year)
           args == Replay(ratingsStore.cache, key)
           store == [ratingsStore EXCEPT
                       !.subscribers = Put(@, key, SubscribersOf(@, key) \cup {cb}),
                       !.stamp = Put(@, <<key, cb>>, ratingsStore.nSubs + 1),
                       !.handles = @ \cup {<<key, cb>>},
                       !.received[cb] = Invoke(@, args),
                       !.lastSub = [op |-> "subscribe", key |-> key, cb |-> cb,
                                    invoked |-> args, before |-> 0],
                       !.lastSet = NoSet,
                       !.nSubs = @ + 1]
           thrown == args # <<>> /\ cb \in Throwers
           g == StoreGet(store, session, videoId, title, year, shouldRefresh)
           call == [key |-> key, checkFreshness |-> shouldRefresh, thrown |-> thrown,
                    exact |-> Has(store.cache, key),
                    apiKey |-> omdbApiKey,
                    missed |-> ~thrown /\ g.missed, value |-> g.value,
                    promise |-> IF thrown THEN 0 ELSE g.promise,
                    msg |-> IF thrown THEN 0 ELSE g.msg,
                    sentNew |-> ~thrown /\ g.sentNew,
                    outstanding |-> Outstanding(session, key)]
       IN  /\ ~thrown => Len(g.sess.sent) <= MaxHandlers
           /\ ratingsStore' = store
           /\ session' = [(IF thrown THEN session ELSE g.sess) EXCEPT
                            !.calls = Append(@, call)]
    /\ SessionUnchanged

\* the message listener of the background script receives message h
SS_Deliver(h) ==
    /\ h <= Len(session.sent)
    /\ LET m == session.sent[h]
       IN  H_Receive(h, <<m.videoId, m.title, m.year>>, m.enrichExisting, m.checkFreshness)

\* the response callback of message m runs with the response
SS_Response(m) ==
    /\ m \in 1..Len(session.sent) /\ m \notin session.done
    /\ hreq[m].responded
    /\ LET msg == session.sent[m]
           response == hreq[m].response
           data == ToStore(response.data, msg.title)
       IN  /\ session' = [session EXCEPT !.pending = Del(@, msg.key), !.done = @ \cup {m}]
           /\ ratingsStore' =
                IF msg.kind = "fetch"
                THEN StoreSet(ratingsStore, msg.key,
                              IF response.success THEN data ELSE StoreErrorData(now))
                ELSE IF ~response.success THEN ratingsStore
                ELSE StoreSet(ratingsStore, msg.key, mergeData(msg.existing, data, now))
    /\ SessionUnchanged

\* the response callback of message m runs with chrome.runtime.lastError
\* set: the message port closed before a response was sent
SS_MessageError(m) ==
    /\ m \in 1..Len(session.sent) /\ m \notin session.done
    /\ ~hreq[m].responded
    /\ session' = [session EXCEPT !.pending = Del(@, session.sent[m].key),
                                  !.done = @ \cup {m}]
    /\ UNCHANGED ratingsStore
    /\ SessionUnchanged

SessionInit ==
    /\ memoryCache = <<>>
    /\ storage = <<>>
    /\ now = 1
    /\ nTicks = 0
    /\ lastOp = NoOp
    /\ nSets = 0
    /\ omdbApiKey = "key"
    /\ rateLimiter = [tokens |-> maxTokens, lastRefill |-> 1]
    /\ pendingRequests = <<>>
    /\ hreq = [h \in Handlers |-> IdleHandler]
    /\ fetch = [h \in Handlers |-> NoFetch]
    /\ mergeIn = NoMerge
    /\ mergeOut = UndefinedData
    /\ nSaves = 0
    /\ faultOp = NoFault
    /\ limiterCalls = NoCalls
    /\ ratingsStore = [NoStore EXCEPT !.received = [cb \in Callbacks |-> Nothing]]
    /\ session = NoSession
    /\ options = DefaultOptions
    /\ clearReq = NoClear
    /\ pureCall = NoPure

\* the lookup of fetch f completes
SNetworkCompletes(f) ==
    (\E net \in SNetOutcomes : F_ApiReturn(f, fetchFromOmdb(net))) \/ F_ApiThrow(f)

SessionNext ==
    \/ \E id \in SIdentities, c \in BOOLEAN : SS_Inject(id[1], id[2], id[3], c)
    \/ \E h \in Handlers : SS_Deliver(h)
    \/ \E m \in Handlers : SS_Response(m)
    \/ \E m \in Handlers : SS_MessageError(m)
    \/ \E h \in Handlers : StorageCompletes(h)
    \/ \E f \in Handlers : SNetworkCompletes(f)
    \/ \E h \in Handlers : PromiseCompletes(h)

\* messages are delivered and answered, and what the background script
\* awaits completes
SessionFairness ==
    \A h \in Handlers :
        /\ WF_vars(SS_Deliver(h))
        /\ WF_vars(SS_Response(h))
        /\ WF_vars(StorageCompletes(h))
        /\ WF_vars(SNetworkCompletes(h))
        /\ WF_vars(PromiseCompletes(h))

SpecSession == SessionInit /\ [][SessionNext]_vars /\ SessionFairness


\* call c was get() with forceRevalidate on an exact session-cache hit
RevalidatingHit(c) == c.exact /\ c.checkFreshness /\ ~c.thrown

\* message m came from such a call, the background script answered it from
\* its cache, and the refresh it started has fetched and stored new data
Refreshed(m) ==
    /\ \E i \in 1..Len(session.calls) :
         RevalidatingHit(session.calls[i]) /\ session.calls[i].msg = m
    /\ hreq[m].responded
    /\ ~fetch[m].registered /\ fetch[m].pc = "settled"
    /\ fetch[m].result.success /\ fetch[m].result.source = "api"
    /\ fetch[m].result.data # hreq[m].response.data

\* the data the refresh of message m stored is in the session cache under
\* the key of the message, and was the last value the subscribers of the
\* key received
ReachedSession(m) ==
    /\ m <= Len(session.sent)
    /\ LET key == session.sent[m].key
           data == ToStore(fetch[m].result.data, session.sent[m].title)
       IN  /\ Has(ratingsStore.cache, key) /\ ratingsStore.cache[key] = data
           /\ \A cb \in SubscribersOf(ratingsStore.subscribers, key) :
                ratingsStore.received[cb].last = data

\* nothing is left to run: the response callback of every message has run,
\* every handler has finished and every fetch has settled
Quiet ==
    /\ session.done = 1..Len(session.sent)
    /\ \A h \in Handlers :
         /\ hreq[h].pc \in {"idle", "done"}
         /\ fetch[h].pc \in {"none", "settled"}

\* C23: get() with forceRevalidate on an exact hit returns the cached value
\* at once and sends or joins the refresh message, and once everything the
\* call started has run, the newer data its background refresh fetched is
\* in the session cache and was delivered to the subscribers of the key
C23_StaleWhileRevalidate ==
    /\ \A i \in 1..Len(session.calls) :
         RevalidatingHit(session.calls[i]) =>
             (session.calls[i].promise = 0 /\ session.calls[i].msg # 0)
    /\ \A m \in Handlers : (Quiet /\ Refreshed(m)) => ReachedSession(m)

\* the first part alone: the cached value is returned at once and the
\* refresh message is sent or joined
ReturnsStaleAtOnce ==
    \A i \in 1..Len(session.calls) :
        RevalidatingHit(session.calls[i]) =>
            (session.calls[i].promise = 0 /\ session.calls[i].msg # 0)

\* C24: a get() that misses the session cache while a message for its key
\* is outstanding sends no message and returns the promise of that message;
\* a pending entry belongs to an outstanding message of its key, and the
\* response callback of a message removes the pending entry of its key
C24_SessionCoalescing ==
    /\ [](/\ \A i \in 1..Len(session.calls) :
               LET c == session.calls[i]
               IN  (c.missed /\ c.outstanding # {}) =>
                       (~c.sentNew /\ c.promise \in c.outstanding)
          /\ \A key \in DOMAIN session.pending :
               session.pending[key] \in Outstanding(session, key))
    /\ [][\A m \in Handlers :
            (m \notin session.done /\ m \in session'.done) =>
                ~Has(session'.pending, session.sent[m].key)]_vars

\* a second get() joined the outstanding message of the first, and the
\* response callback of that message has run
C24_Witness ==
    /\ Len(session.calls) = 2
    /\ session.calls[2].missed /\ session.calls[2].outstanding = {1}
    /\ session.calls[2].promise = 1
    /\ session.done = {1}
    /\ session.pending = <<>>


-----------------------------------------------------------------------------
\* CLEAR_CACHE: handleClearCache running beside the fetch handlers and the
\* popup.  chrome.storage.local holds the cache entries of `storage` under
\* their prefixed keys, the API credential and the display toggles.

\* the keys of chrome.storage.local that are not cache entries
OptionKeys == {"omdbApiKey", "showImdb", "showRotten", "showMetacritic"}

\* the toggles the popup can save
ToggleChoices ==
    { DefaultOptions, [showImdb |-> TRUE, showRotten |-> FALSE, showMetacritic |-> FALSE] }

\* Object.keys(await chrome.storage.local.get(null))
AllItemKeys(sto) == DOMAIN sto \cup OptionKeys

\* the filter taking every key
startsWith_Any(key, prefix) == TRUE

\* key.startsWith(prefix)
startsWith(key, prefix) ==
    Len(key) >= Len(prefix) /\ SubSeq(key, 1, Len(prefix)) = prefix

\* Object.keys(allItems).filter(key => key.startsWith('rating_'))
KeysToRemove(keys) == {k \in keys : startsWith(k, STORAGE_PREFIX)}

\* chrome.storage.local.remove(keys) on the cache entries, on the
\* credential and on the toggles (a removed option reads as its default)
RemoveEntries(sto, keys) == [k \in DOMAIN sto \ keys |-> sto[k]]
RemoveCredential(apiKey, keys) == IF "omdbApiKey" \in keys THEN "" ELSE apiKey
RemoveToggles(opts, keys) ==
    [k \in DOMAIN opts |-> IF k \in keys THEN DefaultOptions[k] ELSE opts[k]]

ClearUnchanged ==
    UNCHANGED <<now, nTicks, seqVars, rateLimiter, hreq, fetch, mergeVars,
                nSaves, faultOp, limiterCalls, ratingsStore, session, pureCall>>

\* the message listener receives CLEAR_CACHE and handleClearCache calls
\* chrome.storage.local.get(null)
CL_Receive ==
    /\ clearReq.pc = "idle"
    /\ clearReq' = [clearReq EXCEPT !.pc = "reading"]
    /\ UNCHANGED <<memoryCache, storage, omdbApiKey, pendingRequests, options>>
    /\ ClearUnchanged

\* get(null) resolves: the keys are filtered and remove(keysToRemove) is
\* called
CL_AfterRead ==
    /\ clearReq.pc = "reading"
    /\ clearReq' = [clearReq EXCEPT !.pc = "removing",
                                    !.before = AllItemKeys(storage),
                                    !.keysToRemove = KeysToRemove(AllItemKeys(storage))]
    /\ UNCHANGED <<memoryCache, storage, omdbApiKey, pendingRequests, options>>
    /\ ClearUnchanged

\* remove resolves: the memory cache and the pending-request map are
\* cleared and the response is sent (inFlight: the FETCH_RATINGS requests
\* received by then)
CL_AfterRemove ==
    /\ clearReq.pc = "removing"
    /\ storage' = RemoveEntries(storage, clearReq.keysToRemove)
    /\ omdbApiKey' = RemoveCredential(omdbApiKey, clearReq.keysToRemove)
    /\ options' = RemoveToggles(options, clearReq.keysToRemove)
    /\ memoryCache' = <<>>
    /\ pendingRequests' = <<>>
    /\ clearReq' = [clearReq EXCEPT !.pc = "done",
                                    !.removed = AllItemKeys(storage) \cap clearReq.keysToRemove,
                                    !.clearedCount = Cardinality(clearReq.keysToRemove),
                                    !.inFlight = {h \in Handlers : hreq[h].pc # "idle"}]
    /\ ClearUnchanged

\* the popup's saveOptions: chrome.storage.local.set of the credential and
\* the three toggles
SaveDisplayOptions(apiKey, toggles) ==
    /\ nSaves < MaxSaves
    /\ <<apiKey, toggles>> # <<omdbApiKey, options>>
    /\ omdbApiKey' = apiKey
    /\ options' = toggles
    /\ nSaves' = nSaves + 1
    /\ UNCHANGED <<cacheVars, seqVars, pendingRequests, rateLimiter, hreq, fetch, mergeVars,
                   faultOp, limiterCalls, ratingsStore, session, clearReq, pureCall>>

ClearInit == SessionInit

ClearNext ==
    \/ \E h \in Handlers, id \in SIdentities, fl \in RequestFlags :
         H_Receive(h, id, fl[1], fl[2])
    \/ \E h \in Handlers : StorageCompletes(h)
    \/ \E f \in Handlers : SNetworkCompletes(f)
    \/ \E h \in Handlers : PromiseCompletes(h)
    \/ CL_Receive
    \/ CL_AfterRead
    \/ CL_AfterRemove
    \/ \E toggles \in ToggleChoices : SaveDisplayOptions("key", toggles)

SpecClear == ClearInit /\ [][ClearNext]_vars

\* handleClearCache sends its response in this step
ClearResponds == clearReq.pc = "removing" /\ clearReq'.pc = "done"

-----------------------------------------------------------------------------
\* Key derivation in the session store and in the orchestrator, as pure
\* functions of (videoId, title, year)

\* every state but pureCall is that of a freshly loaded extension
PureRest ==
    /\ memoryCache = <<>>
    /\ storage = <<>>
    /\ now = 1
    /\ nTicks = 0
    /\ lastOp = NoOp
    /\ nSets = 0
    /\ omdbApiKey = NULL
    /\ rateLimiter = [tokens |-> maxTokens, lastRefill |-> 1]
    /\ pendingRequests = <<>>
    /\ hreq = [h \in Handlers |-> IdleHandler]
    /\ fetch = [h \in Handlers |-> NoFetch]
    /\ mergeIn = NoMerge
    /\ mergeOut = UndefinedData
    /\ nSaves = 0
    /\ faultOp = NoFault
    /\ limiterCalls = NoCalls
    /\ ratingsStore = NoStore
    /\ session = NoSession
    /\ options = DefaultOptions
    /\ clearReq = NoClear

PureUnchanged ==
    UNCHANGED <<cacheVars, seqVars, orchVars, mergeVars, nSaves, faultOp, limiterCalls,
                ratingsStore, session, options, clearReq>>

\* the characters of the titles, and the titles of up to MaxTitleLen
\* characters
KeyAlphabet == {"A", "e", "1", " ", "!"}
KeyTitles == UNION { [1..n -> KeyAlphabet] : n \in 0..MaxTitleLen }
KeyVideoIds == {NULL, "", "7"}
KeyYears == {NULL, "", "99", "2010", "2010-2015"}

KeyInit ==
    /\ PureRest
    /\ pureCall \in { [op |-> "key", args |-> <<v, t, y>>, out |-> <<>>] :
                        v \in KeyVideoIds, t \in KeyTitles, y \in KeyYears }

\* ratingsStore.getKey(videoId, title, year)
K_getKey ==
    /\ pureCall.op = "key" /\ Len(pureCall.out) < MaxKeyCalls
    /\ pureCall' = [pureCall EXCEPT !.out =
           Append(@, [fn |-> "getKey",
                      key |-> getKey(pureCall.args[1], pureCall.args[2], pureCall.args[3])])]
    /\ PureUnchanged

\* cacheManager.getPrimaryKey(videoId, title, year)
K_getPrimaryKey ==
    /\ pureCall.op = "key" /\ Len(pureCall.out) < MaxKeyCalls
    /\ pureCall' = [pureCall EXCEPT !.out =
           Append(@, [fn |-> "getPrimaryKey",
                      key |-> getPrimaryKey(pureCall.args[1], pureCall.args[2],
                                            pureCall.args[3])])]
    /\ PureUnchanged

KeyNext == K_getKey \/ K_getPrimaryKey

SpecKeys == KeyInit /\ [][KeyNext]_vars

\* the first four characters of a year
FirstFour(year) == IF Len(year) > 4 THEN SubSeq(year, 1, 4) ELSE year

\* the key the derivation rule gives for (id, title, year)
RuleKey(id, title, year) ==
    IF id # NULL /\ id # "" THEN "netrot_" \o id
    ELSE IF year # NULL /\ year # "" THEN normalizeTitle(title) \o "_" \o FirstFour(year)
    ELSE normalizeTitle(title)

\* C26: every key getKey or getPrimaryKey derives for (id, title, year) is
\* the ID-based key when id is present, else normalizedTitle_year4 when
\* year is present, else normalizedTitle; repeated calls and the two
\* functions give the same key
C26_KeyDerivation ==
    pureCall.op = "key" =>
        /\ \A i \in 1..Len(pureCall.out) :
             pureCall.out[i].key =
                 RuleKey(pureCall.args[1], pureCall.args[2], pureCall.args[3])
        /\ \A i, j \in 1..Len(pureCall.out) : pureCall.out[i].key = pureCall.out[j].key

\* both functions were called on an id-less title with punctuation, upper
\* case and a year range, and on an id with a title
C26_Witness ==
    /\ pureCall.op = "key"
    /\ pureCall.args = <<NULL, <<"A", "!">>, "2010-2015">>
    /\ Len(pureCall.out) = 2
    /\ pureCall.out[1].fn = "getKey" /\ pureCall.out[2].fn = "getPrimaryKey"
    /\ pureCall.out[1].key = "a_2010"


-----------------------------------------------------------------------------
\* findBestMatch: the choice among the results of the search fallback.
\* Titles are sequences of characters; a result is [Title, Type].

\* title.toLowerCase().trim()
LowerSeq(s) == [i \in 1..Len(s) |-> toLowerCase(s[i])]
RECURSIVE TrimStart(_)
TrimStart(s) == IF s # <<>> /\ Head(s) = " " THEN TrimStart(Tail(s)) ELSE s
RECURSIVE TrimEnd(_)
TrimEnd(s) ==
    IF s # <<>> /\ s[Len(s)] = " " THEN TrimEnd(SubSeq(s, 1, Len(s) - 1)) ELSE s
LowerTrim(s) == TrimEnd(TrimStart(LowerSeq(s)))

\* s.startsWith(p) and s.includes(p)
SeqStartsWith(s, p) == Len(p) <= Len(s) /\ SubSeq(s, 1, Len(p)) = p
SeqIncludes(s, p) ==
    \E i \in 1..(Len(s) - Len(p) + 1) : SubSeq(s, i, i + Len(p) - 1) = p

\* s.split(/\s+/) for a trimmed s: the words between runs of spaces, and
\* one empty word for the empty string
RECURSIVE SplitFrom(_, _, _)
SplitFrom(s, word, words) ==
    IF s = <<>> THEN Append(words, word)
    ELSE IF Head(s) = " "
         THEN IF word = <<>> THEN SplitFrom(Tail(s), word, words)
              ELSE SplitFrom(Tail(s), <<>>, Append(words, word))
         ELSE SplitFrom(Tail(s), Append(word, Head(s)), words)
Split(s) == SplitFrom(s, <<>>, <<>>)

\* originalWords.filter(w => resultWords.includes(w)).length
MatchingWords(originalWords, resultWords) ==
    Cardinality({i \in 1..Len(originalWords) :
                    \E j \in 1..Len(resultWords) : resultWords[j] = originalWords[i]})

\* the score of one result, multiplied by the number of words of the
\* original title so that the word ratio stays an integer
Similarity(normalizedOriginal, result) ==
    LET resultTitle == LowerTrim(result.Title)
        originalWords == Split(normalizedOriginal)
        n == Len(originalWords)
        score ==
            IF resultTitle = normalizedOriginal THEN 100 * n
            ELSE IF SeqStartsWith(resultTitle, normalizedOriginal) THEN 80 * n
            ELSE IF SeqStartsWith(normalizedOriginal, resultTitle) THEN 70 * n
            ELSE IF SeqIncludes(resultTitle, normalizedOriginal) THEN 60 * n
            ELSE IF SeqIncludes(normalizedOriginal, resultTitle) THEN 50 * n
            ELSE MatchingWords(originalWords, Split(resultTitle)) * 40
    IN  IF result.Type = "movie" /\ score > 0 THEN score + 5 * n ELSE score

\* the loop over searchResults from result i on, with the best index (0
\* for null) and the best score so far
RECURSIVE BestFrom(_, _, _, _, _)
BestFrom(normalizedOriginal, searchResults, i, bestMatch, bestScore) ==
    IF i > Len(searchResults) THEN [bestMatch |-> bestMatch, bestScore |-> bestScore]
    ELSE LET score == Similarity(normalizedOriginal, searchResults[i])
         IN  IF score > bestScore
             THEN BestFrom(normalizedOriginal, searchResults, i + 1, i, score)
             ELSE BestFrom(normalizedOriginal, searchResults, i + 1, bestMatch, bestScore)

\* findBestMatch returning the last of the best results
findBestMatch_Last(originalTitle, searchResults) ==
    LET o == LowerTrim(originalTitle)
        best == BestFrom(o, searchResults, 1, 0, 0)
        ties == {i \in 1..Len(searchResults) :
                    Similarity(o, searchResults[i]) = best.bestScore}
    IN  IF best.bestScore >= 40 * Len(Split(o))
        THEN CHOOSE i \in ties : \A j \in ties : j <= i
        ELSE 0

\* findBestMatch(originalTitle, searchResults): the index of the result
\* returned, 0 for null
findBestMatch(originalTitle, searchResults) ==
    LET o == LowerTrim(originalTitle)
        best == BestFrom(o, searchResults, 1, 0, 0)
    IN  IF best.bestScore >= 40 * Len(Split(o)) THEN best.bestMatch ELSE 0

\* the titles OMDb returns and Netflix shows: the words a, n and r
T_an == <<"a", " ", "n">>
MatchQueries == { T_an, <<"A", " ", "N", " ">>, <<"n", " ", "a">>, <<"a", " ", "n", " ", "r">> }
MatchTitles ==
    { T_an, <<"A", " ", "N">>, <<"a", " ", "n", " ", "r">>, <<"a">>,
      <<"r", " ", "a", " ", "n">>, <<"n">>, <<"n", " ", "a">>, <<"n", " ", "r">>, <<"r">> }
MatchResults == { [Title |-> t, Type |-> ty] : t \in MatchTitles, ty \in {"movie", "series"} }
SearchResults == UNION { [1..n -> MatchResults] : n \in 1..MaxResults }

MatchInit ==
    /\ PureRest
    /\ pureCall \in { [op |-> "findBestMatch", args |-> <<q, rs>>, out |-> <<>>] :
                        q \in MatchQueries, rs \in SearchResults }

\* searchOmdbFallback calls findBestMatch(title, searchJson.Search)
FB_Call ==
    /\ pureCall.op = "findBestMatch" /\ pureCall.out = <<>>
    /\ pureCall' = [pureCall EXCEPT !.out =
                        <<findBestMatch(pureCall.args[1], pureCall.args[2])>>]
    /\ PureUnchanged

MatchNext == FB_Call

SpecMatch == MatchInit /\ [][MatchNext]_vars

\* the call of findBestMatch has returned
Matched == pureCall.op = "findBestMatch" /\ pureCall.out # <<>>

\* result i of the call equals the query, case and surrounding blanks aside
ExactResult(i) == LowerTrim(pureCall.args[2][i].Title) = LowerTrim(pureCall.args[1])

\* the score of result i of the call
ScoreOf(i) == Similarity(LowerTrim(pureCall.args[1]), pureCall.args[2][i])

\* C27: findBestMatch returns the first result of maximal score when that
\* score is at least 40 and null otherwise, and returns an exact match
\* whenever the results contain one
C27_FuzzySelection ==
    Matched =>
        LET results == pureCall.args[2]
            n == Len(Split(LowerTrim(pureCall.args[1])))
            chosen == pureCall.out[1]
            top == CHOOSE i \in 1..Len(results) : \A j \in 1..Len(results) : ScoreOf(j) <= ScoreOf(i)
        IN  /\ IF ScoreOf(top) >= 40 * n
               THEN /\ chosen \in 1..Len(results)
                    /\ ScoreOf(chosen) = ScoreOf(top)
                    /\ \A j \in 1..(chosen - 1) : ScoreOf(j) < ScoreOf(chosen)
               ELSE chosen = 0
            /\ (\E i \in 1..Len(results) : ExactResult(i)) =>
                   (chosen # 0 /\ ExactResult(chosen))

\* an exact match of type series was chosen over an earlier movie whose
\* title starts with the query
C27_Witness ==
    /\ Matched
    /\ pureCall.args[1] = T_an
    /\ Len(pureCall.args[2]) = 2
    /\ pureCall.args[2][1] = [Title |-> <<"a", " ", "n", " ", "r">>, Type |-> "movie"]
    /\ pureCall.args[2][2] = [Title |-> <<"A", " ", "N">>, Type |-> "series"]
    /\ pureCall.out[1] = 2


-----------------------------------------------------------------------------
\* Storage layout after CacheManager.set

\* the master key of the last set(): the id key when videoId is present,
\* else the title(+year) key
LayoutMaster ==
    IF Truthy(lastOp.videoId) THEN "netrot_" \o lastOp.videoId
    ELSE IF Truthy(lastOp.year)
         THEN normalizeTitle(lastOp.title) \o "_" \o FirstFour(lastOp.year)
         ELSE normalizeTitle(lastOp.title)

\* the keys derivable from the arguments of the last set(): bare title,
\* title+year and data.imdbId
LayoutDerivable ==
    {normalizeTitle(lastOp.title)}
    \cup (IF Truthy(lastOp.year)
          THEN {normalizeTitle(lastOp.title) \o "_" \o FirstFour(lastOp.year)} ELSE {})
    \cup (IF Truthy(lastOp.data.imdbId) THEN {lastOp.data.imdbId} ELSE {})

\* C28: right after set(videoId, title, year, data) the master key holds
\* the full entry, every other derivable key holds a pointer to the master
\* key when videoId is present and the same entry when it is absent, and
\* durable storage holds the same values as the memory cache
C28_LayoutAfterSet ==
    lastOp.op = "set" =>
        /\ Has(memoryCache, LayoutMaster)
        /\ ~IsPtr(memoryCache[LayoutMaster])
        /\ memoryCache[LayoutMaster].data = lastOp.data
        /\ memoryCache[LayoutMaster].timestamp = now
        /\ \A k \in LayoutDerivable \ {LayoutMaster} :
             /\ Has(memoryCache, k)
             /\ memoryCache[k] = IF Truthy(lastOp.videoId) THEN Ptr(LayoutMaster)
                                 ELSE memoryCache[LayoutMaster]
        /\ \A k \in LayoutDerivable \cup {LayoutMaster} :
             Has(storage, SKey(k)) /\ storage[SKey(k)] = memoryCache[k]

\* a set() with a video id that wrote three pointers, after a set() without
\* one had written copies under the same title keys
C28_Witness ==
    /\ lastOp.op = "set" /\ nSets = 2
    /\ lastOp.videoId = "7" /\ lastOp.title = TitleA /\ lastOp.year = "2010"
    /\ lastOp.data.imdbId = "tt1"
    /\ \A k \in {"a", "a_2010", "tt1"} : memoryCache[k] = Ptr("netrot_7")


-----------------------------------------------------------------------------
\* Completeness of the persisted data

\* what durable storage sto answers for identity id at time t, the memory
\* cache left out
PersistedFor(sto, t, id) == CacheGet(<<>>, sto, t, id[1], id[2], id[3]).res

CompletenessValues == {"full", "partial"}

\* the completeness of merged data is 'full' when the existing or the
\* fresh input is 'full', and 'partial' otherwise
MergeCompleteness ==
    \A e \in CompletenessValues, f \in CompletenessValues, rs \in {NoRatings, SomeRatings} :
        mergeRatingsData(MkData("success", e, "tt1", NULL, 1, rs),
                         MkData("success", f, "tt1", NULL, now, SomeRatings),
                         now).completeness
            = IF e = "full" \/ f = "full" THEN "full" ELSE "partial"

\* C29: merged completeness is 'full' exactly when one input is 'full', and
\* no write to storage replaces the valid 'full' data persisted for an
\* identity by 'partial' data
C29_CompletenessNeverRegresses ==
    /\ []MergeCompleteness
    /\ [][\A id \in OIdentities :
            LET before == PersistedFor(storage, now, id)
                after == PersistedFor(storage', now', id)
            IN  (storage' # storage /\ before.hit /\ before.data.completeness = "full"
                   /\ after.hit)
                => after.data.completeness # "partial"]_vars


-----------------------------------------------------------------------------
\* The detached freshness refresh

\* fetch f is the background refresh of handler f: performFetch called
\* without registering its promise
Detached(f) == fetch[f].pc # "none" /\ ~fetch[f].registered

\* the refresh of f ends in this step without a result from the API: the
\* credential is missing, the title is, the lookup found nothing or threw
RefreshFails(f) ==
    /\ Detached(f)
    /\ fetch[f].pc \in {"keyRead", "acquired", "api"}
    /\ fetch'[f].pc = "settled"

\* C30: while the refresh of a cache hit runs, its handler has returned
\* and has sent the response carrying the cached entry; the step in which
\* the refresh of a success entry fails changes neither that response nor
\* the memory cache nor storage
C30_DetachedRefresh ==
    /\ [](\A f \in Handlers :
            Detached(f) =>
                /\ hreq[f].pc = "done" /\ hreq[f].responded
                /\ hreq[f].checkFreshness /\ ~hreq[f].enrichExisting
                /\ hreq[f].cached.hit
                /\ hreq[f].response.data = hreq[f].cached.data
                /\ hreq[f].response.source = hreq[f].cached.source)
    /\ [][\A f \in Handlers :
            (RefreshFails(f) /\ CachedSuccess(fetch[f].cached)) =>
                /\ hreq' = hreq
                /\ storage' = storage
                /\ memoryCache' = memoryCache]_vars

\* the refresh of a success entry has failed for want of the credential,
\* after the popup cleared it, and the response sent before carries the
\* entry
C30_Witness ==
    \E f \in Handlers :
        /\ Detached(f) /\ fetch[f].pc = "settled"
        /\ ~Truthy(fetch[f].apiKey)
        /\ CachedSuccess(fetch[f].cached)
        /\ hreq[f].responded /\ hreq[f].response.success
        /\ hreq[f].response.data = fetch[f].cached.data


-----------------------------------------------------------------------------
\* The session store of a page beside the popup and the clock: the
\* extension starts without a credential, the user saves one, and cached
\* entries outlive their TTL

PageInit ==
    /\ memoryCache = <<>>
    /\ storage = <<>>
    /\ now = 1
    /\ nTicks = 0
    /\ lastOp = NoOp
    /\ nSets = 0
    /\ omdbApiKey = ""
    /\ rateLimiter = [tokens |-> maxTokens, lastRefill |-> 1]
    /\ pendingRequests = <<>>
    /\ hreq = [h \in Handlers |-> IdleHandler]
    /\ fetch = [h \in Handlers |-> NoFetch]
    /\ mergeIn = NoMerge
    /\ mergeOut = UndefinedData
    /\ nSaves = 0
    /\ faultOp = NoFault
    /\ limiterCalls = NoCalls
    /\ ratingsStore = [NoStore EXCEPT !.received = [cb \in Callbacks |-> Nothing]]
    /\ session = NoSession
    /\ options = DefaultOptions
    /\ clearReq = NoClear
    /\ pureCall = NoPure

\* the clock passes the TTL of every cached entry
PTickSteps == {TTL_SUCCESS_FULL}

PageNext ==
    \/ \E id \in SIdentities, c \in BOOLEAN : SS_Inject(id[1], id[2], id[3], c)
    \/ \E h \in Handlers : SS_Deliver(h)
    \/ \E m \in Handlers : SS_Response(m)
    \/ \E m \in Handlers : SS_MessageError(m)
    \/ \E h \in Handlers : StorageCompletes(h)
    \/ \E f \in Handlers : SNetworkCompletes(f)
    \/ \E h \in Handlers : PromiseCompletes(h)
    \/ SaveOptions("key")
    \/ \E d \in PTickSteps : nTicks = 0 /\ OTick(d)

SpecPage == PageInit /\ [][PageNext]_vars

\* get() number i sent or joined a message that was answered NO_API_KEY
EndedNoApiKey(i) ==
    /\ session.calls[i].msg # 0
    /\ session.calls[i].msg \in session.done
    /\ hreq[session.calls[i].msg].responded
    /\ hreq[session.calls[i].msg].response.error = "NO_API_KEY"

\* get() number j, without forceRevalidate, was made for the key of get()
\* number i after that one had ended in NO_API_KEY and while a credential
\* was configured
RetriesAfterNoApiKey(i, j) ==
    /\ i < j
    /\ session.calls[j].key = session.calls[i].key
    /\ EndedNoApiKey(i)
    /\ session.calls[i].msg \notin session.calls[j].outstanding
    /\ ~session.calls[j].checkFreshness /\ ~session.calls[j].thrown
    /\ Truthy(session.calls[j].apiKey)

\* C31: a get() without forceRevalidate, made with a credential configured
\* after a get() for the same key ended in NO_API_KEY, sends a message and
\* does not resolve with the cached error
C31_NoApiKeyRecoverable ==
    \A i, j \in 1..Len(session.calls) :
        RetriesAfterNoApiKey(i, j) =>
            (session.calls[j].missed /\ session.calls[j].msg # 0)


-----------------------------------------------------------------------------
\* The cache manager called for titles that content.js lets through
\* (`if (title)` holds for any non-empty string) and that normalizeTitle
\* maps to the empty string: titles made only of characters outside
\* [a-z0-9], here "!" and "!!"

BlankTitleA == <<"!">>
BlankTitleB == <<"!", "!">>
BlankTitles == {BlankTitleA, BlankTitleB}
BlankIdentities == { <<NULL, t, y>> : t \in BlankTitles, y \in CYears }

BlankNext ==
    \/ \E id \in BlankIdentities : \E data \in CacheData(now) : CM_Set(id[1], id[2], id[3], data)
    \/ \E id \in BlankIdentities : CM_Get(id[1], id[2], id[3])
    \/ \E d \in TickSteps : Tick(d)

SpecBlank == CacheInit /\ [][BlankNext]_vars

\* the empty key and the keys that are only '_' plus a year
BlankKeys == {""} \cup { "_" \o Year4(y) : y \in CYears \ {NULL} }

\* C32: for titles whose normalized form is empty and no videoId, nothing is
\* stored under the empty key or under '_' plus a year, in the memory cache
\* or in durable storage, and after a single set for one such title a get
\* for another such title does not hit
C32_EmptyTitleRejected ==
    /\ \A k \in BlankKeys :
          ~Has(memoryCache, k) /\ ~Has(storage, STORAGE_PREFIX \o k)
    /\ \A t1, t2 \in BlankTitles :
          (nSets = 1 /\ lastOp.op = "set" /\ lastOp.title = t1 /\ t2 # t1) =>
              ~CacheGet(memoryCache, storage, now, NULL, t2, lastOp.year).res.hit


-----------------------------------------------------------------------------
\* the fetch of handler f has started and has not settled
Running(f) == fetch[f].pc \notin {"none", "settled"}

\* C33: the pending-request entry of a registered fetch that is in flight
\* stays in the map, unchanged, in every step that does not settle that
\* fetch: neither a freshness refresh nor another fetch for the same key
\* removes or replaces it
C33_PendingEntryOwned ==
    [][\A k \in DOMAIN pendingRequests :
          (Running(pendingRequests[k]) /\ fetch'[pendingRequests[k]].pc # "settled") =>
              (Has(pendingRequests', k) /\ pendingRequests'[k] = pendingRequests[k])]_vars


-----------------------------------------------------------------------------
\* injectWithSubscription number i subscribed callback i; the callback has
\* been invoked
Served(i) == ratingsStore.received[i].n >= 1

\* C34: once everything an injectWithSubscription started has run (every
\* message answered or failed, every handler and fetch finished), the
\* callback it subscribed has been invoked at least once
C34_SubscriberServed ==
    Quiet => \A i \in 1..Len(session.calls) : Served(i)


-----------------------------------------------------------------------------
\* get() number i was made on an exact hit of a success entry and sent or
\* joined a message whose response callback runs in this step
AnsweredAfterSuccess(i) ==
    LET c == session.calls[i]
    IN  /\ c.exact /\ ~c.thrown /\ c.value.status = "success"
        /\ c.msg # 0 /\ c.msg \notin session.done /\ c.msg \in session'.done
        /\ Has(ratingsStore.cache, c.key)
        /\ ratingsStore.cache[c.key].status = "success"

\* C35: when the response callback of a get() made on a cached success
\* entry runs, the entry under the key is not replaced by an error entry
\* and the subscriber of that get() is not called with an error entry
C35_NoDowngrade ==
    [][\A i \in 1..Len(session.calls) :
          AnsweredAfterSuccess(i) =>
              /\ ratingsStore'.cache[session.calls[i].key].status # "error"
              /\ ratingsStore'.received[i].n > ratingsStore.received[i].n =>
                     ratingsStore'.received[i].last.status # "error"]_vars


-----------------------------------------------------------------------------
\* v is a success entry within its TTL at time t
ValidSuccess(v, t) == ~IsPtr(v) /\ v.data.status = "success" /\ isValid(v, t)

\* the step stores a not_found entry under key k of the map m
WritesNotFound(m, k) == Has(m, k) /\ ~IsPtr(m[k]) /\ m[k].data.status = "not_found"

\* C36: no step replaces a success entry that is within its TTL by a
\* not_found entry, under any key of the memory cache or of durable storage
C36_SuccessNotOverwritten ==
    [][/\ \A k \in DOMAIN memoryCache :
             ValidSuccess(memoryCache[k], now) => ~WritesNotFound(memoryCache', k)
       /\ \A k \in DOMAIN storage :
             ValidSuccess(storage[k], now) => ~WritesNotFound(storage', k)]_vars


-----------------------------------------------------------------------------
\* Provider traffic: each caller of acquire() is a performFetch that calls
\* fetchFromOmdb once its acquire() has returned. limiterCalls.requests
\* counts the HTTP requests sent since the last refill of the bucket.

\* the calls of performFetch one caller makes
MaxFetches == 2

\* the calls of fetch() that fetchFromOmdb and searchOmdbFallback make for
\* the outcome net: the exact lookup, the search query when the exact lookup
\* is answered without a match, the detail lookup when the search has a
\* best match
HttpRequests(net) ==
    IF net.exact.Response = "True" THEN 1
    ELSE IF net.search = "results" THEN 3
    ELSE 2

\* performFetch of caller a, past `await rateLimiter.acquire()`, calls
\* fetchFromOmdb and the calls of fetch() it makes are sent
T_Fetch(a, net) ==
    /\ limiterCalls.proc[a].pc = "returned"
    /\ limiterCalls.requests <= maxTokens
    /\ limiterCalls' = [limiterCalls EXCEPT !.proc[a].pc = "idle",
                                            !.requests = @ + HttpRequests(net)]
    /\ UNCHANGED <<cacheVars, seqVars, orchVars, mergeVars, nSaves, faultOp, ratingsStore,
                   restVars>>

\* performFetch of caller a calls rateLimiter.acquire()
T_Acquire(a) ==
    /\ limiterCalls.proc[a].pc = "idle"
    /\ limiterCalls.proc[a].calls < MaxFetches
    /\ L_Acquire(a)

TrafficNext ==
    \/ \E a \in Acquirers : T_Acquire(a)
    \/ \E a \in Acquirers : \E net \in NetOutcomes : T_Fetch(a, net)
    \/ \E a \in Acquirers : L_TimerFire(a)
    \/ \E a \in Acquirers : L_TimerDue(a)
    \/ \E d \in LTickSteps : L_Tick(d)

SpecTraffic == LimiterInit /\ [][TrafficNext]_vars

\* C37: the HTTP requests sent to the provider since the last refill of the
\* bucket never exceed maxTokens
C37_TrafficBounded == limiterCalls.requests <= maxTokens


-----------------------------------------------------------------------------
\* C38: when set(key, data) has called subscribers, the session cache that
\* the callbacks could read held data under key and under every alias key
\* derived from data: the id key, the IMDb id, the normalized title
C38_AliasesBeforeNotify ==
    (JustSet /\ ratingsStore.lastSet.calls # <<>>) =>
        \A k \in Aliases(ratingsStore.lastSet.key, ratingsStore.lastSet.data) :
            /\ Has(ratingsStore.lastSet.cacheAtNotify, k)
            /\ ratingsStore.lastSet.cacheAtNotify[k] = ratingsStore.lastSet.data

\* a response stored data with an IMDb id and a normalized title under at
\* least three keys, and a subscriber of a key other than the key of the
\* set was called
C38_Witness ==
    /\ JustSet
    /\ LET s == ratingsStore.lastSet
       IN  /\ Cardinality(Aliases(s.key, s.data)) >= 3
           /\ Truthy(s.data.imdbId) /\ Truthy(s.data.normalizedTitle)
           /\ \E i \in 1..Len(s.calls) : s.calls[i][1] # s.key


-----------------------------------------------------------------------------
\* the handles that have been called and whose callback has not been
\* subscribed under the key again
Unsubscribed == ratingsStore.handles \ DOMAIN ratingsStore.stamp

\* this step is a call of the handle of subscribe(key, cb)
CallsHandle(key, cb) ==
    /\ ratingsStore' # ratingsStore
    /\ ratingsStore'.lastSub = [NoSub EXCEPT !.op = "unsubscribe", !.key = key, !.cb = cb]

\* this step is a call of set
CallsSet == ratingsStore'.nSets = ratingsStore.nSets + 1

\* C39: a set calls no callback for a key under which its handle has been
\* called; a call of the handle of subscribe(key, cb) removes cb from the
\* subscribers of key and leaves the other callbacks under key, the
\* subscribers of every other key, the session cache and what every callback
\* has received unchanged; a call of the handle when cb is not subscribed
\* under key changes no subscription
C39_UnsubscribeLocal ==
    [][/\ CallsSet =>
            \A i \in 1..Len(ratingsStore'.lastSet.calls) :
                ratingsStore'.lastSet.calls[i] \notin Unsubscribed
       /\ \A key \in StoreKeys, cb \in Callbacks :
            CallsHandle(key, cb) =>
                /\ cb \notin SubscribersOf(ratingsStore'.subscribers, key)
                /\ SubscribersOf(ratingsStore'.subscribers, key)
                     = SubscribersOf(ratingsStore.subscribers, key) \ {cb}
                /\ \A k \in StoreKeys \ {key} :
                     SubscribersOf(ratingsStore'.subscribers, k)
                       = SubscribersOf(ratingsStore.subscribers, k)
                /\ ratingsStore'.cache = ratingsStore.cache
                /\ ratingsStore'.received = ratingsStore.received
                /\ <<key, cb>> \in Unsubscribed =>
                     ratingsStore'.subscribers = ratingsStore.subscribers]_vars

\* after the handle of a callback was called for one key, a set has called
\* another callback under that key and the same callback under another key
C39_Witness ==
    /\ JustSet
    /\ \E p \in Unsubscribed :
         /\ p[1] \in Aliases(ratingsStore.lastSet.key, ratingsStore.lastSet.data)
         /\ \E i, j \in 1..Len(ratingsStore.lastSet.calls) :
              /\ ratingsStore.lastSet.calls[i][1] = p[1]
              /\ ratingsStore.lastSet.calls[i][2] # p[2]
              /\ ratingsStore.lastSet.calls[j][1] # p[1]
              /\ ratingsStore.lastSet.calls[j][2] = p[2]


-----------------------------------------------------------------------------
\* the entries of durable storage under the cache prefix
CacheEntries(sto) == { k \in DOMAIN sto : startsWith(k, STORAGE_PREFIX) }

\* CLEAR_CACHE has responded and this step adds an entry to the memory cache
\* or under the cache prefix of durable storage
WritesAfterClear ==
    /\ clearReq.pc = "done"
    /\ \/ DOMAIN memoryCache' # DOMAIN memoryCache /\ memoryCache' # <<>>
       \/ CacheEntries(storage') \ CacheEntries(storage) # {}

\* C40: once CLEAR_CACHE has responded, a step that puts an entry into the
\* memory cache or under the cache prefix of durable storage is not a step
\* of a FETCH_RATINGS request that was received before the response
C40_ClearNotUndone ==
    [][WritesAfterClear =>
          \A h \in clearReq.inFlight : hreq'[h] = hreq[h] /\ fetch'[h] = fetch[h]]_vars

=============================================================================
